---- MODULE Spec2Model ----
(***************************************************************************)
(* A model of the cluster core of Nanos6 (nanos6-cluster-dlb):             *)
(*   - ClusterDataLinkStep::start / linkRegion  (ExecutionWorkflowCluster)  *)
(*   - ClusterDataCopyStep / requiresDataFetch / ClusterManager::fetchVector*)
(*   - ClusterManager construction, initialize .. shutdownPhase2            *)
(*   - ClusterLocalityScheduler::getScheduledNode                           *)
(* Each component has its own specification (SpecLink, SpecCopy, SpecIds,   *)
(* SpecCM); the variables of the other components are left unchanged.       *)
(***************************************************************************)
EXTENDS Integers, Sequences, FiniteSets, TLC

(***************************************************************************)
(* Bounds of the model                                                     *)
(***************************************************************************)
MaxRegionSize == 2
MaxLinkCalls == 3
MaxDupReads == 1
MaxAddr == 3
MaxMsgSize == 2
MaxNodes == 2
MaxIds == 3
MaxAccesses == 2
MaxReleaseTasks == 2
MaxPending == 2
MaxReturnCode == 1
MaxSpurious == 2
MaxCPUs == 3
MaxNUMANodes == 2
MaxInitializeCalls == 2
MaxWorkers == 1
MaxProfilingBufferSize == 6
MaxBacktraceDepth == 2
MaxSamples == 4

VARIABLES
    \* ---- ClusterDataLinkStep (one step, its threads) ----
    lkSize,         \* _region.getSize()
    lkRead,         \* _read  (read satisfied when the access was offloaded)
    lkWrite,        \* _write
    lkSource,       \* _sourceMemoryPlace->getIndex()
    bytesToLink,    \* _bytesToLink
    started,        \* _started
    lockHolder,     \* the threads inside a lock_guard on _lock
    lkPc,           \* position of every thread
    lkArgs,         \* the arguments of a thread's linkRegion call
    lkDelete,       \* the local deleteStep of every thread
    destroyed,      \* how many times "delete this" ran
    released,       \* how many times releaseSuccessors() ran
    dataLinks,      \* the addDataLink calls made on the execution step
    satMap,         \* the records pushed to satisfiabilityMap, each with its key
    readDelivered,  \* how many times read satisfiability was handed to the step
    writeDelivered, \* the same for write satisfiability
    zeroHits,       \* how many times _bytesToLink became zero
    useAfterFree    \* a member of the step was touched after "delete this"

VARIABLES
    \* ---- ClusterDataCopyStep, the pending-transfer queue, the write-ID cache ----
    msgMaxSize,     \* ClusterManager::getMessageMaxSize()
    cpRegion,       \* _fullRegion of every copy step
    cpNeeds,        \* _needsTransfer
    cpRegLoc,       \* _registerLocation
    cpWid,          \* _writeID
    cpPc,           \* position of every copy step
    cpFragsLeft,    \* _nFragments (counted down by _postcallback)
    cpReleased,     \* how many times the step ran releaseSuccessors()
    cpDestroyed,    \* how many times the step ran "delete this"
    cpLocUpdated,   \* how many times the step ran updateTaskDataAccessLocation
    cpWidRegistered, \* how many times the step ran registerWriteIDasLocal
    cpSawPending,   \* the queue held a containing transfer to this node at the scan
    pendingQueue,   \* PendingQueue<DataTransfer>
    sentFetches,    \* the MessageDataFetch messages sent
    widCache        \* the (writeID, region) pairs registered as local

copyVars == << msgMaxSize, cpRegion, cpNeeds, cpRegLoc, cpWid, cpPc, cpFragsLeft,
               cpReleased, cpDestroyed, cpLocUpdated, cpWidRegistered, cpSawPending,
               pendingQueue, sentFetches, widCache >>

VARIABLES
    \* ---- identifier services of every node (MessageId, WriteID, OffloadedTaskId) ----
    idCfg,          \* the cluster the nodes run in: communication disabled?, size
    idCtr,          \* per node and family: the counter as its initialize() left it
    idLog,          \* the identifiers allocated so far: family, node, id
    \* ---- ClusterManager of this process, the scheduler ----
    cfg,            \* the configuration and what the messenger reports
    singleton,      \* ClusterManager::_singleton
    cmPhase,        \* how many lifecycle calls have returned
    cmLog,          \* the calls made on the messenger and the services, in order
    activePolling,  \* ClusterServicesPolling::_activeClusterPollingServices
    activeTaskSvc,  \* ClusterServicesTask::_activeClusterTaskServices
    workers,        \* message-handler workers running
    infoMaps,       \* RemoteTasksInfoMap / OffloadedTasksInfoMap initialised
    nsEnabled,      \* NodeNamespace::isEnabled()
    schedTask,      \* the task handed to getScheduledNode
    schedResult     \* what getScheduledNode returned

VARIABLES
    \* ---- the rest of the runtime, as far as the ClusterManager reads it ----
    memAllocInit    \* MemoryAllocator::isInitialized()

VARIABLES
    \* ---- tasks calling ClusterManager::setEarlyRelease ----
    disableAutowait, \* _disableAutowait (cluster.disable_autowait)
    taskFlags,       \* per task: its delayed-release and non-local-release flags
    lastRelease      \* per task: the last mode it passed to setEarlyRelease

VARIABLES
    \* ---- the lock of the pending queue: scans and the polling service ----
    queueLock,      \* the holder of the lock of PendingQueue<DataTransfer>
    registryLock,   \* the holder of the lock updateTaskDataAccessLocation takes
    scQueue,        \* the pending transfers: the steps each contains, callbacks
    scPc,           \* where the requiresDataFetch call of every step is
    scIdx,          \* the pending transfer the scan of a step has reached
    svcPc,          \* where the polling service is
    svcRun,         \* the completion callbacks the service has still to run
    scLocUpdated,   \* per step: location updates
    scReleased,     \* per step: releaseSuccessors() calls
    scDestroyed     \* per step: delete this

VARIABLES
    \* ---- _nanos6_loader_main and the main task ----
    bootPc,         \* the statement the wrapper is at
    taskPc,         \* the stage of the main task and its completion callback
    condMutex,      \* the holder of condVar._mutex
    signaled,       \* condVar._signaled
    bootCalls,      \* the runtime entry points the wrapper has called
    wrappedRc,      \* what the wrapped main returns
    returnCode,     \* argsBlock.returnCode
    bootResult,     \* what _nanos6_loader_main returned
    spurious,       \* spurious wake-ups of pthread_cond_wait so far
    waits           \* pthread_cond_wait calls so far

VARIABLES
    \* ---- CPUManager ----
    hwCPUs,         \* the compute places of the host, in enumeration order
    processCPUMask, \* the affinity mask of the process
    cpuPc,          \* the stage of the CPUManager
    cpusVec,        \* _cpus
    totalCPUs,      \* _totalCPUs
    cpuIndex,       \* per compute place: the index set by setIndex
    NUMANodeMask,   \* _NUMANodeMask
    idleCPUs,       \* _idleCPUs
    systemToVirtualCPUId,       \* _systemToVirtualCPUId
    finishedCPUInitialization,  \* _finishedCPUInitialization
    cpuInitialized, \* per compute place: initializeIfNeeded() has worked
    workerThreads,  \* the worker threads created, with the CPU each resumed on
    virtualCPUId,   \* the loop variable of initialize()
    initializeCalls, \* initialize() calls so far
    cpuLists        \* the CPU lists preinitialize() adds to RuntimeInfo

VARIABLES
    \* ---- ClusterManager::fetchVector, call by call ----
    fvCalls         \* the fetchVector calls in progress: their steps, their position

fetchVars == << fvCalls >>

VARIABLES
    \* ---- Instrument::Profile, one profiled thread ----
    prBuild,                  \* the backtrace facility the build uses
    profilingBufferSize,      \* _profilingBufferSize, in addresses
    profilingBacktraceDepth,  \* _profilingBacktraceDepth
    prEnabled,                \* _enabled
    prPc,                     \* the stage of the thread
    nextBufferPosition,       \* _perThread._nextBufferPosition
    bufferList,               \* how many buffers _bufferList holds
    prWritten,                \* the indices of _currentBuffer the last call wrote
    prSamples                 \* profiling signals handled so far

profileVars == << prBuild, profilingBufferSize, profilingBacktraceDepth, prEnabled,
                  prPc, nextBufferPosition, bufferList, prWritten, prSamples >>
scanLockVars == << queueLock, registryLock, scQueue, scPc, scIdx, svcPc, svcRun,
                   scLocUpdated, scReleased, scDestroyed >>
bootVars == << bootPc, taskPc, condMutex, signaled, bootCalls, wrappedRc, returnCode,
               bootResult, spurious, waits >>
cpuVars == << hwCPUs, processCPUMask, cpuPc, cpusVec, totalCPUs, cpuIndex,
              NUMANodeMask, idleCPUs, systemToVirtualCPUId,
              finishedCPUInitialization, cpuInitialized, workerThreads,
              virtualCPUId, initializeCalls, cpuLists >>
idVars == << idCfg, idCtr, idLog >>
runtimeVars == << memAllocInit >>
releaseVars == << disableAutowait, taskFlags, lastRelease >>
cmVars == << cfg, singleton, cmPhase, cmLog, activePolling, activeTaskSvc, workers,
             infoMaps, nsEnabled, schedTask, schedResult >>

linkVars == << lkSize, lkRead, lkWrite, lkSource, bytesToLink, started, lockHolder, lkPc,
               lkArgs, lkDelete, destroyed, released, dataLinks, satMap,
               readDelivered, writeDelivered, zeroHits, useAfterFree >>

\* what the operations of one component leave alone
notLink == << copyVars, idVars, cmVars, runtimeVars, releaseVars,
             scanLockVars, bootVars, cpuVars, fetchVars, profileVars >>
notCopy == << linkVars, idVars, cmVars, runtimeVars, releaseVars,
             scanLockVars, bootVars, cpuVars, fetchVars, profileVars >>
notIds == << linkVars, copyVars, runtimeVars, releaseVars,
            scanLockVars, bootVars, cpuVars, fetchVars, profileVars >>
notCM == << linkVars, copyVars, runtimeVars, releaseVars,
           scanLockVars, bootVars, cpuVars, fetchVars, profileVars >>
notRelease == << linkVars, copyVars, idVars, cmVars, runtimeVars,
                scanLockVars, bootVars, cpuVars, fetchVars, profileVars >>
notScanLock == << linkVars, copyVars, idVars, cmVars, runtimeVars, releaseVars,
                 bootVars, cpuVars, fetchVars, profileVars >>
notBoot == << linkVars, copyVars, idVars, cmVars, runtimeVars, releaseVars,
             scanLockVars, cpuVars, fetchVars, profileVars >>
notCPU == << linkVars, copyVars, idVars, cmVars, runtimeVars, releaseVars,
            scanLockVars, bootVars, fetchVars, profileVars >>
notProfile == << linkVars, copyVars, idVars, cmVars, runtimeVars, releaseVars,
                scanLockVars, bootVars, cpuVars, fetchVars >>
\* what fetchVector, taken call by call, leaves alone
notFetch == << linkVars, idVars, cmVars, runtimeVars, releaseVars,
              scanLockVars, bootVars, cpuVars, profileVars >>

(***************************************************************************)
(* ClusterDataLinkStep                                                     *)
(***************************************************************************)
Threads == 0..MaxLinkCalls
LinkThreads == 1..MaxLinkCalls
\* thread 0 is the workflow thread that calls start()
IsStartThread(t) == t = 0

\* memory places an access can be located at, as linkRegion sees them
LinkLocations == {"null", "host", "directory", "cluster"}

\* getCurrentMemoryNode()->getIndex() of the offloader and the index of a
\* remote cluster memory node
ThisNodeIndex == 0
RemoteNodeIndex == 1

NoArgs == [read |-> FALSE, write |-> FALSE, loc |-> "null"]

\* the initial value of _bytesToLink: both read and write satisfiability of
\* the whole region have to be linked
InitialBytesToLink(size) == 2 * size

\* the directory memory place's own index: no node's index
DirectoryIndex == MaxNodes

\* location->getIndex() of a location linkRegion does not replace
OwnIndex(loc) ==
    IF loc = "directory" THEN DirectoryIndex ELSE RemoteNodeIndex

\* linkRegion with no location replaced by the current memory node
LocationIndexKeepsLocation(loc) ==
    IF loc = "null" THEN -1 ELSE OwnIndex(loc)

\* locationIndex of linkRegion
LocationIndex(loc) ==
    IF loc = "null" THEN -1
    ELSE IF loc \notin {"directory", "cluster"} THEN ThisNodeIndex
    ELSE OwnIndex(loc)

\* linkedBytes of linkRegion
LinkedBytes(size, read, write) ==
    IF read /\ write THEN 2 * size ELSE size

\* std::lock_guard<SpinLock> guard(_lock): the constructor
LockFree == lockHolder = {}
\* a lock_guard that never waits
CanLockAlways == TRUE

CanLock == LockFree

InitLink ==
    /\ lkSize \in 1..MaxRegionSize
    /\ lkRead \in BOOLEAN
    /\ lkWrite \in BOOLEAN
    /\ lkSource \in {ThisNodeIndex, RemoteNodeIndex}
    /\ bytesToLink = InitialBytesToLink(lkSize)
    /\ started = FALSE
    /\ lockHolder = {}
    /\ lkPc = [t \in Threads |-> "idle"]
    /\ lkArgs = [t \in Threads |-> NoArgs]
    /\ lkDelete = [t \in Threads |-> FALSE]
    /\ destroyed = 0
    /\ released = 0
    /\ dataLinks = << >>
    /\ satMap = << >>
    /\ readDelivered = IF lkRead THEN 1 ELSE 0
    /\ writeDelivered = IF lkWrite THEN 1 ELSE 0
    /\ zeroHits = 0
    /\ useAfterFree = FALSE

\* start(): lock_guard constructor
StartAcquire ==
    /\ lkPc[0] = "idle"
    /\ CanLock
    /\ lockHolder' = lockHolder \cup {0}
    /\ lkPc' = [lkPc EXCEPT ![0] = "cs"]
    /\ UNCHANGED << lkSize, lkRead, lkWrite, lkSource, bytesToLink, started, lkArgs,
                    lkDelete, destroyed, released, dataLinks, satMap,
                    readDelivered, writeDelivered, zeroHits, useAfterFree >>
    /\ UNCHANGED notLink

\* the location start() hands to addDataLink
StartLocation(read, write, source) ==
    IF read \/ write THEN source ELSE -1

\* the deleteStep decision of start()
StartDeletes(read, write) == read /\ write

\* start(): the critical section, up to the end of the guard's scope
StartBody ==
    /\ lkPc[0] = "cs"
    /\ dataLinks' = Append(dataLinks,
            [location |-> StartLocation(lkRead, lkWrite, lkSource),
             read |-> lkRead, write |-> lkWrite])
    /\ IF StartDeletes(lkRead, lkWrite)
       THEN /\ lkDelete' = [lkDelete EXCEPT ![0] = TRUE]
            /\ UNCHANGED << bytesToLink, started, zeroHits >>
       ELSE /\ bytesToLink' = bytesToLink - lkSize
            /\ started' = TRUE
            /\ zeroHits' = IF bytesToLink' = 0 THEN zeroHits + 1 ELSE zeroHits
            /\ UNCHANGED lkDelete
    /\ released' = released + 1
    /\ lockHolder' = lockHolder \ {0}
    /\ lkPc' = [lkPc EXCEPT ![0] = "post"]
    /\ UNCHANGED << lkSize, lkRead, lkWrite, lkSource, lkArgs, destroyed, satMap,
                    readDelivered, writeDelivered, useAfterFree >>
    /\ UNCHANGED notLink

\* start(): if (deleteStep) delete this;
StartPost ==
    /\ lkPc[0] = "post"
    /\ destroyed' = IF lkDelete[0] THEN destroyed + 1 ELSE destroyed
    /\ lkPc' = [lkPc EXCEPT ![0] = "done"]
    /\ UNCHANGED << lkSize, lkRead, lkWrite, lkSource, bytesToLink, started, lockHolder,
                    lkArgs, lkDelete, released, dataLinks, satMap,
                    readDelivered, writeDelivered, zeroHits, useAfterFree >>
    /\ UNCHANGED notLink

\* The satisfiability the dependency system can still hand to the step: write
\* satisfiability once, read satisfiability once and, when it is also
\* propagated in the remote namespace, a second time.
CanDeliver(read, write, loc) ==
    /\ read \/ write
    /\ write => writeDelivered = 0
    /\ read => readDelivered < 1 + MaxDupReads
    /\ (loc = "null") => (write /\ ~read)
    /\ (loc = "null") => readDelivered = 0

\* linkRegion(access, read, write, satisfiabilityMap): entry and lock_guard
LinkAcquire(t, read, write, loc) ==
    /\ lkPc[t] = "idle"
    /\ \A u \in LinkThreads : u < t => lkPc[u] # "idle"
    /\ CanDeliver(read, write, loc)
    /\ CanLock
    /\ lockHolder' = lockHolder \cup {t}
    /\ lkArgs' = [lkArgs EXCEPT ![t] = [read |-> read, write |-> write, loc |-> loc]]
    /\ readDelivered' = IF read THEN readDelivered + 1 ELSE readDelivered
    /\ writeDelivered' = IF write THEN writeDelivered + 1 ELSE writeDelivered
    /\ useAfterFree' = (useAfterFree \/ destroyed > 0)
    /\ lkPc' = [lkPc EXCEPT ![t] = "cs"]
    /\ UNCHANGED << lkSize, lkRead, lkWrite, lkSource, bytesToLink, started, lkDelete,
                    destroyed, released, dataLinks, satMap, zeroHits >>
    /\ UNCHANGED notLink

\* the deleteStep decision of linkRegion
LinkDeletes(isStarted, bytes) == isStarted /\ bytes = 0

\* linkRegion: the critical section, up to the end of the guard's scope
LinkBody(t) ==
    /\ lkPc[t] = "cs"
    /\ ~IsStartThread(t)
    /\ satMap' = Append(satMap,
            [node |-> RemoteNodeIndex,
             locationIndex |-> LocationIndex(lkArgs[t].loc),
             read |-> lkArgs[t].read, write |-> lkArgs[t].write])
    /\ bytesToLink' = bytesToLink - LinkedBytes(lkSize, lkArgs[t].read, lkArgs[t].write)
    /\ zeroHits' = IF bytesToLink' = 0 THEN zeroHits + 1 ELSE zeroHits
    /\ lkDelete' = [lkDelete EXCEPT ![t] = LinkDeletes(started, bytesToLink')]
    /\ useAfterFree' = (useAfterFree \/ destroyed > 0)
    /\ lockHolder' = lockHolder \ {t}
    /\ lkPc' = [lkPc EXCEPT ![t] = "post"]
    /\ UNCHANGED << lkSize, lkRead, lkWrite, lkSource, started, lkArgs, destroyed,
                    released, dataLinks, readDelivered, writeDelivered >>
    /\ UNCHANGED notLink

\* linkRegion: if (deleteStep) { // delete this; }
LinkPost(t) ==
    /\ lkPc[t] = "post"
    /\ ~IsStartThread(t)
    /\ lkPc' = [lkPc EXCEPT ![t] = "done"]
    /\ UNCHANGED << lkSize, lkRead, lkWrite, lkSource, bytesToLink, started, lockHolder,
                    lkArgs, lkDelete, destroyed, released, dataLinks, satMap,
                    readDelivered, writeDelivered, zeroHits, useAfterFree >>
    /\ UNCHANGED notLink

NextLink ==
    \/ StartAcquire
    \/ StartBody
    \/ StartPost
    \/ \E t \in LinkThreads, read \in BOOLEAN, write \in BOOLEAN, loc \in LinkLocations :
            LinkAcquire(t, read, write, loc)
    \/ \E t \in LinkThreads : LinkBody(t)
    \/ \E t \in LinkThreads : LinkPost(t)


(***************************************************************************)
(* ClusterDataCopyStep, ClusterManager::fetchVector, the pending queue     *)
(***************************************************************************)
\* the two fetch steps, both with this node as their target
CopySteps == {1, 2}

\* regions are half-open intervals [s, e) of the addresses 0 .. MaxAddr
Regions == { r \in [s : 0..MaxAddr, e : 0..MaxAddr] : r.s < r.e }
RegionSize(r) == r.e - r.s

\* two versions of the data
WriteIDs == {1, 2}

\* DataAccessRegion::fullyContainedIn
FullyContainedIn(a, b) == b.s <= a.s /\ a.e <= b.e

\* the fragments built by the ClusterDataCopyStep constructor
FragmentsFromWhole(start, endAddress, max) ==
    IF start < endAddress THEN << [s |-> start, e |-> endAddress] >> ELSE << >>

RECURSIVE FragmentsFrom(_, _, _)
FragmentsFrom(start, endAddress, max) ==
    IF start < endAddress
    THEN LET end == IF endAddress - start > max THEN start + max ELSE endAddress
         IN  << [s |-> start, e |-> end] >> \o FragmentsFrom(end, endAddress, max)
    ELSE << >>

Fragments(region, max) == FragmentsFrom(region.s, region.e, max)

\* ClusterManager::getMPIFragments(region)
GetMPIFragments(region, max) == (RegionSize(region) + max - 1) \div max

\* WriteIDManager::checkWriteIDLocal(writeID, region)
CheckWriteIDLocal(cache, wid, region) ==
    \E c \in cache : c.wid = wid /\ FullyContainedIn(region, c.region)

\* a predicate that does not look at the target of the pending transfer
PendingMatchesAnyTarget(dt, region) == FullyContainedIn(region, dt.region)

\* the predicate requiresDataFetch hands to checkPendingQueue
PendingMatchesReversed(dt, region) ==
    dt.target = ThisNodeIndex /\ FullyContainedIn(dt.region, region)
PendingMatches(dt, region) ==
    dt.target = ThisNodeIndex /\ FullyContainedIn(region, dt.region)

\* a scan that accepts no pending transfer
ScanPendingNone(queue, i, region) == 0

\* a scan that goes on after the predicate has accepted a transfer
ScanPendingLast(queue, i, region) ==
    LET accepted == { j \in i..Len(queue) : PendingMatches(queue[j], region) }
    IN  IF accepted = {} THEN 0
        ELSE CHOOSE j \in accepted : \A k \in accepted : k <= j

\* PendingQueue<DataTransfer>::checkPendingQueue: the index of the first
\* pending transfer the predicate accepts, 0 when it accepts none
RECURSIVE ScanPending(_, _, _)
ScanPending(queue, i, region) ==
    IF i > Len(queue) THEN 0
    ELSE IF PendingMatches(queue[i], region) THEN i
    ELSE ScanPending(queue, i + 1, region)

InitCopy ==
    /\ msgMaxSize \in 1..MaxMsgSize
    /\ cpRegion \in [CopySteps -> Regions]
    /\ cpNeeds \in [CopySteps -> BOOLEAN]
    /\ cpRegLoc \in [CopySteps -> BOOLEAN]
    /\ \A c \in CopySteps : cpRegLoc[c] => ~cpNeeds[c]
    /\ RegionSize(cpRegion[1]) <= RegionSize(cpRegion[2])
    /\ cpWid \in [CopySteps -> WriteIDs]
    /\ cpPc = [c \in CopySteps |-> "created"]
    /\ cpFragsLeft = [c \in CopySteps |-> GetMPIFragments(cpRegion[c], msgMaxSize)]
    /\ cpReleased = [c \in CopySteps |-> 0]
    /\ cpDestroyed = [c \in CopySteps |-> 0]
    /\ cpLocUpdated = [c \in CopySteps |-> 0]
    /\ cpWidRegistered = [c \in CopySteps |-> 0]
    /\ cpSawPending = [c \in CopySteps |-> FALSE]
    /\ pendingQueue = << >>
    /\ sentFetches = << >>
    /\ widCache = {}

\* a write ID registered as local by another task of this node
RegisterWriteIDasLocal(wid, region) ==
    /\ widCache = {}
    /\ pendingQueue = << >>
    /\ \A c \in CopySteps : cpPc[c] = "created"
    /\ widCache' = {[wid |-> wid, region |-> region]}
    /\ UNCHANGED << msgMaxSize, cpRegion, cpNeeds, cpRegLoc, cpWid, cpPc, cpFragsLeft,
                    cpReleased, cpDestroyed, cpLocUpdated, cpWidRegistered,
                    cpSawPending, pendingQueue, sentFetches >>
    /\ UNCHANGED notCopy

\* an outgoing transfer (to another node) that is still in the pending queue
AddOutgoingTransfer(region) ==
    /\ pendingQueue = << >>
    /\ \A c \in CopySteps : cpPc[c] = "created"
    /\ pendingQueue' = Append(pendingQueue,
            [region |-> region, target |-> RemoteNodeIndex, owner |-> 0,
             callbacks |-> << >>])
    /\ UNCHANGED << msgMaxSize, cpRegion, cpNeeds, cpRegLoc, cpWid, cpPc, cpFragsLeft,
                    cpReleased, cpDestroyed, cpLocUpdated, cpWidRegistered,
                    cpSawPending, sentFetches, widCache >>
    /\ UNCHANGED notCopy

\* requiresDataFetch: the second chance, the write ID is local by now
LateWriteIDNever(c) == FALSE
LateWriteID(c) == cpNeeds[c] /\ CheckWriteIDLocal(widCache, cpWid[c], cpRegion[c])

\* ClusterDataCopyStep::requiresDataFetch
RequiresDataFetch(c) ==
    /\ cpPc[c] = "created"
    /\ LET lateWriteID == LateWriteID(c)
           hit == ScanPending(pendingQueue, 1, cpRegion[c])
       IN
       /\ cpLocUpdated' = [cpLocUpdated EXCEPT ![c] =
                                IF cpRegLoc[c] \/ lateWriteID THEN @ + 1 ELSE @]
       /\ IF ~cpNeeds[c] \/ lateWriteID
          THEN \* releaseSuccessors(); delete this; return false
               /\ cpReleased' = [cpReleased EXCEPT ![c] = @ + 1]
               /\ cpDestroyed' = [cpDestroyed EXCEPT ![c] = @ + 1]
               /\ cpPc' = [cpPc EXCEPT ![c] = "done"]
               /\ UNCHANGED << pendingQueue, cpSawPending >>
          ELSE /\ cpSawPending' = [cpSawPending EXCEPT ![c] =
                        \E i \in DOMAIN pendingQueue :
                            /\ pendingQueue[i].target = ThisNodeIndex
                            /\ pendingQueue[i].region.s <= cpRegion[c].s
                            /\ cpRegion[c].e <= pendingQueue[i].region.e]
               /\ IF hit # 0
                  THEN \* handled: the step waits for the pending transfer
                       /\ pendingQueue' = [pendingQueue EXCEPT ![hit].callbacks = Append(@, c)]
                       /\ cpPc' = [cpPc EXCEPT ![c] = "piggy"]
                  ELSE \* return true: the caller has to fetch
                       /\ cpPc' = [cpPc EXCEPT ![c] = "needFetch"]
                       /\ UNCHANGED pendingQueue
               /\ UNCHANGED << cpReleased, cpDestroyed >>
    /\ UNCHANGED << msgMaxSize, cpRegion, cpNeeds, cpRegLoc, cpWid, cpFragsLeft,
                    cpWidRegistered, sentFetches, widCache >>
    /\ UNCHANGED notCopy

\* the data transfers of the fragments of the steps of one fetchVector call
RECURSIVE TransfersOfWholeRegions(_)
TransfersOfWholeRegions(steps) ==
    IF steps = << >> THEN << >>
    ELSE << [region |-> cpRegion[Head(steps)], target |-> ThisNodeIndex,
             owner |-> Head(steps), callbacks |-> << >>] >>
         \o TransfersOfWholeRegions(Tail(steps))

RECURSIVE TransfersOf(_)
TransfersOf(steps) ==
    IF steps = << >> THEN << >>
    ELSE LET c == Head(steps)
             frags == Fragments(cpRegion[c], msgMaxSize)
         IN  [i \in 1..Len(frags) |->
                 [region |-> frags[i], target |-> ThisNodeIndex, owner |-> c,
                  callbacks |-> << >>]] \o TransfersOf(Tail(steps))

\* ClusterManager::fetchVector(nFragments, copySteps, from)
FetchVector(steps) ==
    /\ Len(steps) > 0
    /\ \A i \in DOMAIN steps : cpPc[steps[i]] = "needFetch"
    /\ \A i, j \in DOMAIN steps : i # j => steps[i] # steps[j]
    /\ pendingQueue' = pendingQueue \o TransfersOf(steps)
    /\ sentFetches' = Append(sentFetches,
            [nFragments |-> Len(TransfersOf(steps)), steps |-> steps])
    /\ cpPc' = [c \in CopySteps |->
                    IF \E i \in DOMAIN steps : steps[i] = c THEN "fetching" ELSE cpPc[c]]
    /\ UNCHANGED << msgMaxSize, cpRegion, cpNeeds, cpRegLoc, cpWid, cpFragsLeft,
                    cpReleased, cpDestroyed, cpLocUpdated, cpWidRegistered,
                    cpSawPending, widCache >>
    /\ UNCHANGED notCopy

\* the steps finished by the completion of pending transfer dt: its owner when
\* this was its last fragment (_postcallback), and the steps that piggy-backed
LastFragmentEvery(dt) == dt.owner # 0
LastFragment(dt) == dt.owner # 0 /\ cpFragsLeft[dt.owner] = 1

\* a completion that runs the owner's callback and drops the callbacks added
\* by other steps
FinishedByOwnerOnly(dt) == IF LastFragment(dt) THEN {dt.owner} ELSE {}

FinishedBy(dt) ==
    { dt.callbacks[i] : i \in DOMAIN dt.callbacks }
        \cup (IF LastFragment(dt) THEN {dt.owner} ELSE {})

\* the polling service finds pending transfer i complete: it leaves the queue
\* and its completion callbacks run
CompleteTransfer(i) ==
    /\ i \in DOMAIN pendingQueue
    /\ LET dt == pendingQueue[i] IN
       /\ pendingQueue' = [j \in 1..(Len(pendingQueue) - 1) |->
                               IF j < i THEN pendingQueue[j] ELSE pendingQueue[j + 1]]
       /\ cpFragsLeft' = [c \in CopySteps |->
                               IF c = dt.owner THEN cpFragsLeft[c] - 1 ELSE cpFragsLeft[c]]
       /\ cpLocUpdated' = [c \in CopySteps |->
                               IF c \in FinishedBy(dt) THEN cpLocUpdated[c] + 1 ELSE cpLocUpdated[c]]
       /\ cpWidRegistered' = [c \in CopySteps |->
                               IF c = dt.owner /\ LastFragment(dt)
                               THEN cpWidRegistered[c] + 1 ELSE cpWidRegistered[c]]
       /\ cpReleased' = [c \in CopySteps |->
                               IF c \in FinishedBy(dt) THEN cpReleased[c] + 1 ELSE cpReleased[c]]
       /\ cpDestroyed' = [c \in CopySteps |->
                               IF c \in FinishedBy(dt) THEN cpDestroyed[c] + 1 ELSE cpDestroyed[c]]
       /\ cpPc' = [c \in CopySteps |-> IF c \in FinishedBy(dt) THEN "done" ELSE cpPc[c]]
       /\ widCache' = IF LastFragment(dt)
                      THEN widCache \cup {[wid |-> cpWid[dt.owner], region |-> cpRegion[dt.owner]]}
                      ELSE widCache
    /\ UNCHANGED << msgMaxSize, cpRegion, cpNeeds, cpRegLoc, cpWid, cpSawPending,
                    sentFetches >>
    /\ UNCHANGED notCopy

\* the data transfers of other tasks that a scan can find pending: incoming
\* and outgoing ones share the queue
OtherTransfers ==
    [region : Regions, target : {ThisNodeIndex, RemoteNodeIndex}, owner : {0},
     callbacks : {<< >>}]
PendingQueues ==
    UNION { [1..n -> OtherTransfers] : n \in 0..MaxPending }

\* one step about to call requiresDataFetch while transfers of other tasks
\* are pending; the other step has finished without a transfer
InitScan ==
    /\ msgMaxSize = MaxMsgSize
    /\ cpRegion \in [CopySteps -> Regions]
    /\ cpRegion[2] = cpRegion[1]
    /\ cpNeeds = [c \in CopySteps |-> c = 1]
    /\ cpRegLoc = [c \in CopySteps |-> FALSE]
    /\ cpWid = [c \in CopySteps |-> 1]
    /\ cpPc = [c \in CopySteps |-> IF c = 1 THEN "created" ELSE "done"]
    /\ cpFragsLeft = [c \in CopySteps |-> GetMPIFragments(cpRegion[c], msgMaxSize)]
    /\ cpReleased = [c \in CopySteps |-> IF c = 1 THEN 0 ELSE 1]
    /\ cpDestroyed = [c \in CopySteps |-> IF c = 1 THEN 0 ELSE 1]
    /\ cpLocUpdated = [c \in CopySteps |-> 0]
    /\ cpWidRegistered = [c \in CopySteps |-> 0]
    /\ cpSawPending = [c \in CopySteps |-> FALSE]
    /\ pendingQueue \in PendingQueues
    /\ sentFetches = << >>
    /\ widCache = {}

NextScan ==
    \/ \E c \in CopySteps : RequiresDataFetch(c)
    \/ \E i \in 1..Len(pendingQueue) : CompleteTransfer(i)

\* the vectors of steps a caller can hand to fetchVector
StepVectors == { << a >> : a \in CopySteps } \cup { << a, b >> : a, b \in CopySteps }

NextCopy ==
    \/ \E c \in CopySteps : RegisterWriteIDasLocal(cpWid[c], cpRegion[c])
    \/ \E c \in CopySteps : AddOutgoingTransfer(cpRegion[c])
    \/ \E c \in CopySteps : RequiresDataFetch(c)
    \/ \E steps \in StepVectors : FetchVector(steps)
    \/ \E i \in 1..Len(pendingQueue) : CompleteTransfer(i)


(***************************************************************************)
(* ClusterManager::fetchVector, call by call                               *)
(***************************************************************************)
\* the two calls fetchVector ends with, in the order of the code
FetchVectorOrderSendFirst == << "sendMessage", "addPendingVector" >>
FetchVectorOrder == << "addPendingVector", "sendMessage" >>

\* two steps that both need a transfer of data that is not local yet
InitFetch ==
    /\ msgMaxSize \in 1..MaxMsgSize
    /\ cpRegion \in [CopySteps -> Regions]
    /\ cpNeeds = [c \in CopySteps |-> TRUE]
    /\ cpRegLoc = [c \in CopySteps |-> FALSE]
    /\ cpWid = [c \in CopySteps |-> c]
    /\ cpPc = [c \in CopySteps |-> "created"]
    /\ cpFragsLeft = [c \in CopySteps |-> GetMPIFragments(cpRegion[c], msgMaxSize)]
    /\ cpReleased = [c \in CopySteps |-> 0]
    /\ cpDestroyed = [c \in CopySteps |-> 0]
    /\ cpLocUpdated = [c \in CopySteps |-> 0]
    /\ cpWidRegistered = [c \in CopySteps |-> 0]
    /\ cpSawPending = [c \in CopySteps |-> FALSE]
    /\ pendingQueue = << >>
    /\ sentFetches = << >>
    /\ widCache = {}
    /\ fvCalls = {}

\* fetchVector: entry, the message is built and the transfers of the
\* fragments are collected
FetchVectorEnter(steps) ==
    /\ Len(steps) > 0
    /\ \A i \in DOMAIN steps : cpPc[steps[i]] = "needFetch"
    /\ \A i, j \in DOMAIN steps : i # j => steps[i] # steps[j]
    /\ fvCalls' = fvCalls \cup {[steps |-> steps, pc |-> 1]}
    /\ cpPc' = [c \in CopySteps |->
                    IF \E i \in DOMAIN steps : steps[i] = c
                    THEN "inFetchVector" ELSE cpPc[c]]
    /\ UNCHANGED << msgMaxSize, cpRegion, cpNeeds, cpRegLoc, cpWid, cpFragsLeft,
                    cpReleased, cpDestroyed, cpLocUpdated, cpWidRegistered,
                    cpSawPending, pendingQueue, sentFetches, widCache >>
    /\ UNCHANGED notFetch

\* fetchVector: its next call, addPendingVector(temporal) or
\* sendMessage(msg, remoteNode); it returns after the last one
FetchVectorCall(call) ==
    /\ call \in fvCalls
    /\ LET op == FetchVectorOrder[call.pc]
           last == call.pc = Len(FetchVectorOrder)
       IN
       /\ IF op = "addPendingVector"
          THEN /\ pendingQueue' = pendingQueue \o TransfersOf(call.steps)
               /\ UNCHANGED sentFetches
          ELSE /\ sentFetches' = Append(sentFetches,
                      [nFragments |-> Len(TransfersOf(call.steps)),
                       steps |-> call.steps])
               /\ UNCHANGED pendingQueue
       /\ fvCalls' = (fvCalls \ {call})
                        \cup (IF last THEN {} ELSE {[call EXCEPT !.pc = @ + 1]})
       /\ cpPc' = [c \in CopySteps |->
                      IF last /\ \E i \in DOMAIN call.steps : call.steps[i] = c
                      THEN "fetching" ELSE cpPc[c]]
    /\ UNCHANGED << msgMaxSize, cpRegion, cpNeeds, cpRegLoc, cpWid, cpFragsLeft,
                    cpReleased, cpDestroyed, cpLocUpdated, cpWidRegistered,
                    cpSawPending, widCache >>
    /\ UNCHANGED notFetch

\* the data of pending transfer i can only have arrived once the DataFetch
\* message naming it was sent
DataArrived(i) ==
    \E m \in DOMAIN sentFetches :
        \E k \in DOMAIN sentFetches[m].steps :
            sentFetches[m].steps[k] = pendingQueue[i].owner

\* the polling service finds a pending transfer whose data has arrived
PollTransfer(i) ==
    /\ i \in DOMAIN pendingQueue
    /\ DataArrived(i)
    /\ CompleteTransfer(i)

NextFetch ==
    \/ \E c \in CopySteps : RequiresDataFetch(c)
    \/ \E steps \in StepVectors : FetchVectorEnter(steps)
    \/ \E call \in fvCalls : FetchVectorCall(call)
    \/ \E i \in 1..Len(pendingQueue) : PollTransfer(i)


(***************************************************************************)
(* Identifier services and the ClusterManager constructors                 *)
(***************************************************************************)
Nodes == 0..(MaxNodes - 1)
Families == {"msg", "wid", "task"}

\* a counter nobody has initialised, and what initialize(nodeIndex,
\* clusterSize) makes of it: the node issues nodeIndex, nodeIndex +
\* clusterSize, nodeIndex + 2 * clusterSize, ...
NoCounter == [init |-> FALSE, next |-> 0, stride |-> 0]
InitializeCounter(nodeIndex, clusterSize) ==
    [init |-> TRUE, next |-> nodeIndex, stride |-> clusterSize]

NoCounters == [f \in Families |-> NoCounter]

\* what the two ClusterManager constructors do to the three counters:
\* ClusterManager() and ClusterManager(commType)
CtorCountersNodeZero(disabled, nodeIndex, clusterSize) ==
    [f \in Families |-> InitializeCounter(0, clusterSize)]
CtorCounters(disabled, nodeIndex, clusterSize) ==
    IF disabled
    THEN [msg |-> NoCounter,
          wid |-> InitializeCounter(0, 1),
          task |-> InitializeCounter(0, 1)]
    ELSE [msg |-> InitializeCounter(nodeIndex, clusterSize),
          wid |-> InitializeCounter(nodeIndex, clusterSize),
          task |-> InitializeCounter(nodeIndex, clusterSize)]

InitIds ==
    /\ idCfg \in [disabled : BOOLEAN, size : 1..MaxNodes]
    /\ idCfg.disabled => idCfg.size = 1
    /\ idCtr = [n \in Nodes |-> NoCounters]
    /\ idLog = << >>

\* node n constructs its ClusterManager
IdsConstruct(n) ==
    /\ n < idCfg.size
    /\ ~idCtr[n]["wid"].init
    /\ idCtr' = [idCtr EXCEPT ![n] = CtorCounters(idCfg.disabled, n, idCfg.size)]
    /\ UNCHANGED << idCfg, idLog >>
    /\ UNCHANGED << notIds, cmVars >>

\* a thread of node n takes the next identifier of family f (an atomic
\* fetch-and-add on the counter)
IdsAllocate(n, f) ==
    /\ n < idCfg.size
    /\ idCtr[n][f].init
    /\ Len(idLog) < MaxIds
    /\ idLog' = Append(idLog, [family |-> f, node |-> n, id |-> idCtr[n][f].next])
    /\ idCtr' = [idCtr EXCEPT ![n][f].next = @ + idCtr[n][f].stride]
    /\ UNCHANGED idCfg
    /\ UNCHANGED << notIds, cmVars >>

NextIds ==
    \/ \E n \in Nodes : IdsConstruct(n)
    \/ \E n \in Nodes, f \in Families : IdsAllocate(n, f)


(***************************************************************************)
(* ClusterManager: initialize, postinitialize, shutdownPhase1/2            *)
(***************************************************************************)
NullSingleton ==
    [exists |-> FALSE, nodes |-> << >>, thisNode |-> 0, masterNode |-> 0,
     msn |-> FALSE, usingNamespace |-> FALSE, taskInPoolins |-> FALSE,
     numMessageHandlerWorkers |-> 0, callback |-> FALSE]

\* new ClusterNode(index, commIndex)
ClusterNode(index, commIndex) == [index |-> index, commIndex |-> commIndex]

\* ClusterManager::ClusterManager(): _taskInPoolins and
\* _numMessageHandlerWorkers are left uninitialised
NewClusterManagerNamespace(uninitialised) ==
    [exists |-> TRUE, nodes |-> << ClusterNode(0, 0) >>, thisNode |-> 0,
     masterNode |-> 0, msn |-> FALSE, usingNamespace |-> TRUE,
     taskInPoolins |-> uninitialised.inTask,
     numMessageHandlerWorkers |-> uninitialised.workers, callback |-> FALSE]

NewClusterManager(uninitialised) ==
    [exists |-> TRUE, nodes |-> << ClusterNode(0, 0) >>, thisNode |-> 0,
     masterNode |-> 0, msn |-> FALSE, usingNamespace |-> FALSE,
     taskInPoolins |-> uninitialised.inTask,
     numMessageHandlerWorkers |-> uninitialised.workers, callback |-> FALSE]

\* the constructor taking its own node for the master and the reverse
NewClusterManagerCommSwapped(c) ==
    [exists |-> TRUE,
     nodes |-> [i \in 1..c.size |-> ClusterNode(i - 1, i - 1)],
     thisNode |-> c.master, masterNode |-> c.index, msn |-> TRUE,
     usingNamespace |-> c.useNamespace, taskInPoolins |-> c.inTask,
     numMessageHandlerWorkers |-> c.numWorkers, callback |-> FALSE]

\* ClusterManager::ClusterManager(std::string const &commType)
NewClusterManagerComm(c) ==
    [exists |-> TRUE,
     nodes |-> [i \in 1..c.size |-> ClusterNode(i - 1, i - 1)],
     thisNode |-> c.index, masterNode |-> c.master, msn |-> TRUE,
     usingNamespace |-> c.useNamespace, taskInPoolins |-> c.inTask,
     numMessageHandlerWorkers |-> c.numWorkers, callback |-> FALSE]

Event(op, node) == [op |-> op, node |-> node]

\* ClusterManager::clusterSize(), inClusterMode(), isMasterNode()
ClusterSize == Len(singleton.nodes)
InClusterMode == ClusterSize > 1
IsMasterNode == singleton.thisNode = singleton.masterNode

\* the values an uninitialised member can hold
Uninitialised == [inTask : BOOLEAN, workers : 0..MaxWorkers]

Configs ==
    { c \in [comm : {"disabled", "mpi"}, inTask : BOOLEAN, useNamespace : BOOLEAN,
             numWorkers : 0..MaxWorkers,
             size : 1..MaxNodes, index : Nodes, master : Nodes] :
        /\ c.index < c.size
        /\ c.master < c.size
        /\ c.comm = "disabled" => c.size = 1 }

NoResult == [called |-> FALSE, node |-> 0, bytes |-> << >>, canBeOffloaded |-> TRUE]

InitCM ==
    /\ cfg \in Configs
    /\ singleton = NullSingleton
    /\ cmPhase = 0
    /\ cmLog = << >>
    /\ activePolling = 0
    /\ activeTaskSvc = 0
    /\ workers = 0
    /\ infoMaps = FALSE
    /\ nsEnabled = FALSE
    /\ schedTask = << >>
    /\ schedResult = NoResult
    /\ memAllocInit = FALSE
    /\ idCfg = [disabled |-> cfg.comm = "disabled", size |-> cfg.size]
    /\ idCtr = [n \in Nodes |-> NoCounters]
    /\ idLog = << >>

\* ClusterManager::initialize()
Initialize ==
    /\ cmPhase = 0
    /\ ~singleton.exists
    /\ IF cfg.comm # "disabled"
       THEN /\ singleton' = NewClusterManagerComm(cfg)
            /\ infoMaps' = TRUE
            /\ cmLog' = cmLog \o << Event("msn.create", -1),
                                    Event("msn.synchronizeAll", -1) >>
       ELSE /\ \E uninitialised \in Uninitialised :
                    singleton' = NewClusterManager(uninitialised)
            /\ UNCHANGED << infoMaps, cmLog >>
    /\ idCtr' = [idCtr EXCEPT ![cfg.index] =
                    CtorCounters(cfg.comm = "disabled", cfg.index, cfg.size)]
    /\ cmPhase' = 1
    /\ UNCHANGED << cfg, activePolling, activeTaskSvc, workers, nsEnabled,
                    schedTask, schedResult, idCfg, idLog >>
    /\ UNCHANGED notCM

\* MemoryAllocator::initialize(): the runtime initialises the memory
\* allocator after the cluster
MemoryAllocatorInitialize ==
    /\ cmPhase >= 1
    /\ ~memAllocInit
    /\ memAllocInit' = TRUE
    /\ UNCHANGED << linkVars, copyVars, idVars, cmVars, releaseVars,
                    scanLockVars, bootVars, cpuVars, fetchVars, profileVars >>

\* ClusterManager::postinitialize()
PostinitializeAnySize ==
    /\ cmPhase = 1
    /\ singleton.exists
    /\ memAllocInit
    /\ activePolling' = 1
    /\ workers' = workers + singleton.numMessageHandlerWorkers
    /\ cmLog' = cmLog \o << Event("ClusterServicesPolling::initialize", -1),
                            Event("initializeWorkers", -1) >>
    /\ cmPhase' = 2
    /\ UNCHANGED << cfg, singleton, activeTaskSvc, infoMaps, nsEnabled, schedTask,
                    schedResult >>
    /\ UNCHANGED << idVars, notCM >>

\* postinitialize() starting the kind of service that is not configured
PostinitializeOtherKind ==
    /\ cmPhase = 1
    /\ singleton.exists
    /\ memAllocInit
    /\ IF InClusterMode
       THEN IF singleton.taskInPoolins
            THEN /\ activePolling' = activePolling + 1
                 /\ workers' = workers + singleton.numMessageHandlerWorkers
                 /\ cmLog' = cmLog \o << Event("ClusterServicesPolling::initialize", -1),
                                         Event("initializeWorkers", -1) >>
                 /\ UNCHANGED activeTaskSvc
            ELSE /\ activeTaskSvc' = activeTaskSvc + 1
                 /\ workers' = workers + singleton.numMessageHandlerWorkers
                 /\ cmLog' = cmLog \o << Event("ClusterServicesTask::initialize", -1),
                                         Event("initializeWorkers", -1) >>
                 /\ UNCHANGED activePolling
       ELSE UNCHANGED << activePolling, activeTaskSvc, workers, cmLog >>
    /\ cmPhase' = 2
    /\ UNCHANGED << cfg, singleton, infoMaps, nsEnabled, schedTask, schedResult >>
    /\ UNCHANGED << idVars, notCM >>

Postinitialize ==
    /\ cmPhase = 1
    /\ singleton.exists
    /\ memAllocInit
    /\ IF InClusterMode
       THEN IF singleton.taskInPoolins
            THEN /\ activeTaskSvc' = activeTaskSvc + 1
                 /\ workers' = workers + singleton.numMessageHandlerWorkers
                 /\ cmLog' = cmLog \o << Event("ClusterServicesTask::initialize", -1),
                                         Event("initializeWorkers", -1) >>
                 /\ UNCHANGED activePolling
            ELSE /\ activePolling' = activePolling + 1
                 /\ workers' = workers + singleton.numMessageHandlerWorkers
                 /\ cmLog' = cmLog \o << Event("ClusterServicesPolling::initialize", -1),
                                         Event("initializeWorkers", -1) >>
                 /\ UNCHANGED activeTaskSvc
       ELSE UNCHANGED << activePolling, activeTaskSvc, workers, cmLog >>
    /\ cmPhase' = 2
    /\ UNCHANGED << cfg, singleton, infoMaps, nsEnabled, schedTask, schedResult >>
    /\ UNCHANGED << idVars, notCM >>

\* ClusterManager::initClusterNamespaceOrSetCallback(func, args)
InitClusterNamespaceOrSetCallback ==
    /\ cmPhase = 2
    /\ singleton.exists
    /\ ~nsEnabled
    /\ ~singleton.callback
    /\ IF singleton.usingNamespace
       THEN /\ nsEnabled' = TRUE
            /\ cmLog' = Append(cmLog, Event("NodeNamespace::init", -1))
            /\ UNCHANGED singleton
       ELSE /\ singleton' = [singleton EXCEPT !.callback = TRUE]
            /\ UNCHANGED << nsEnabled, cmLog >>
    /\ UNCHANGED << cfg, cmPhase, activePolling, activeTaskSvc, workers, infoMaps,
                    schedTask, schedResult >>
    /\ UNCHANGED << idVars, notCM >>

\* shutdownPhase1: the SysFinish messages the master sends, in registry order
RECURSIVE SysFinishSendsToAll(_, _)
SysFinishSendsToAll(nodes, thisNode) ==
    IF nodes = << >> THEN << >>
    ELSE << Event("msn.sendMessage SysFinish blocking", Head(nodes).index) >>
         \o SysFinishSendsToAll(Tail(nodes), thisNode)

RECURSIVE SysFinishSends(_, _)
SysFinishSends(nodes, thisNode) ==
    IF nodes = << >> THEN << >>
    ELSE (IF Head(nodes).index # thisNode
          THEN << Event("msn.sendMessage SysFinish blocking", Head(nodes).index) >>
          ELSE << >>) \o SysFinishSends(Tail(nodes), thisNode)

\* shutdownPhase1, first block: wait until the services have finished
WaitCallsNone == << >>
WaitCalls ==
    IF InClusterMode
    THEN IF singleton.taskInPoolins
         THEN << Event("ClusterServicesTask::waitUntilFinished", -1) >>
         ELSE << Event("ClusterServicesPolling::waitUntilFinished", -1) >>
    ELSE << >>

\* second block: the master tells the namespace
NotifyCalls ==
    IF singleton.usingNamespace /\ IsMasterNode
    THEN << Event("NodeNamespace::notifyShutdown", -1) >>
    ELSE << >>

\* third block: SysFinish and barrier, services, workers, info maps
FinishCalls ==
    IF InClusterMode
    THEN (IF IsMasterNode
          THEN SysFinishSends(singleton.nodes, singleton.thisNode)
                   \o << Event("msn.synchronizeAll", -1) >>
          ELSE << >>)
         \o (IF singleton.taskInPoolins
             THEN << Event("ClusterServicesTask::shutdown", -1),
                     Event("shutdownWorkers", -1) >>
             ELSE << Event("ClusterServicesPolling::shutdown", -1),
                     Event("shutdownWorkers", -1) >>)
         \o << Event("RemoteTasksInfoMap::shutdown", -1),
               Event("OffloadedTasksInfoMap::shutdown", -1) >>
    ELSE << >>

\* fourth block: the messenger
MessengerShutdownCalls ==
    IF singleton.msn THEN << Event("msn.shutdown", -1) >> ELSE << >>

\* the calls shutdownPhase1 makes, in order
ShutdownPhase1CallsMessengerFirst ==
    MessengerShutdownCalls \o WaitCalls \o NotifyCalls \o FinishCalls

ShutdownPhase1Calls ==
    WaitCalls \o NotifyCalls \o FinishCalls \o MessengerShutdownCalls

\* ClusterManager::shutdownPhase1()
ShutdownPhase1 ==
    /\ cmPhase = 2
    /\ singleton.exists
    /\ memAllocInit
    /\ (singleton.usingNamespace /\ IsMasterNode) => nsEnabled
    \* waitUntilFinished returns once the pending queues are empty
    /\ WaitCalls # << >> => pendingQueue = << >>
    /\ cmLog' = cmLog \o ShutdownPhase1Calls
    /\ IF InClusterMode
       THEN /\ IF singleton.taskInPoolins
               THEN /\ activeTaskSvc' = activeTaskSvc - 1
                    /\ UNCHANGED activePolling
               ELSE /\ activePolling' = activePolling - 1
                    /\ UNCHANGED activeTaskSvc
            /\ workers' = workers - singleton.numMessageHandlerWorkers
            /\ infoMaps' = FALSE
       ELSE UNCHANGED << activePolling, activeTaskSvc, workers, infoMaps >>
    /\ cmPhase' = 3
    /\ UNCHANGED << cfg, singleton, nsEnabled, schedTask, schedResult >>
    /\ UNCHANGED << idVars, notCM >>

\* ClusterManager::shutdownPhase2()
ShutdownPhase2KeepsSingleton ==
    /\ cmPhase = 3
    /\ singleton.exists
    /\ nsEnabled' = FALSE
    /\ cmLog' = IF nsEnabled THEN Append(cmLog, Event("NodeNamespace::deallocate", -1))
                ELSE cmLog
    /\ cmPhase' = 4
    /\ UNCHANGED << cfg, singleton, activePolling, activeTaskSvc, workers, infoMaps,
                    schedTask, schedResult >>
    /\ UNCHANGED << idVars, notCM >>

ShutdownPhase2 ==
    /\ cmPhase = 3
    /\ singleton.exists
    /\ nsEnabled' = FALSE
    /\ cmLog' = IF nsEnabled THEN Append(cmLog, Event("NodeNamespace::deallocate", -1))
                ELSE cmLog
    /\ singleton' = NullSingleton
    /\ cmPhase' = 4
    /\ UNCHANGED << cfg, activePolling, activeTaskSvc, workers, infoMaps,
                    schedTask, schedResult >>
    /\ UNCHANGED << idVars, notCM >>


(***************************************************************************)
(* ClusterLocalityScheduler::getScheduledNode                              *)
(***************************************************************************)
\* nanos6_cluster_no_offload
NoOffload == -1

\* the distributed arena is [0, ClusterMemEnd); the rest of the address
\* range is node-local memory
ClusterMemEnd == MaxAddr - 1

\* VirtualMemoryManagement::isClusterMemory(region)
IsClusterMemory(region) == 0 <= region.s /\ region.e <= ClusterMemEnd

\* where an access can be located: nowhere yet (weak), the directory, host
\* memory of this node, the memory node of cluster node index
Locations(k) ==
    { [kind |-> "null", index |-> -1], [kind |-> "dir", index |-> -1],
      [kind |-> "host", index |-> -1] }
        \cup { [kind |-> "node", index |-> i] : i \in 0..(k - 1) }

Accesses(k) == [region : Regions, loc : Locations(k)]

Tasks(k, maxLen) == UNION { [1..n -> Accesses(k)] : n \in 0..maxLen }

\* the directory: the distributed arena split into equal blocks, block n
\* with home node n
HomeBlock(k) == (ClusterMemEnd + k - 1) \div k
HomeNodes(k) ==
    LET all == [n \in 1..k |->
                    [region |-> [s |-> (n - 1) * HomeBlock(k),
                                 e |-> IF n * HomeBlock(k) < ClusterMemEnd
                                       THEN n * HomeBlock(k) ELSE ClusterMemEnd],
                     home |-> n - 1]]
    IN  SelectSeq(all, LAMBDA h : h.region.s < h.region.e)

\* Directory::find(region): the home-node entries that intersect the region
DirectoryFind(region, k) ==
    SelectSeq(HomeNodes(k), LAMBDA h : h.region.s < region.e /\ region.s < h.region.e)

\* DataAccessRegion::intersect, getSize
Intersect(a, b) ==
    [s |-> IF a.s > b.s THEN a.s ELSE b.s, e |-> IF a.e < b.e THEN a.e ELSE b.e]

\* the bytes a home-node entry adds to its node's score
SubregionSizeWholeEntry(region, entry) == RegionSize(entry.region)
SubregionSize(region, entry) == RegionSize(Intersect(region, entry.region))

\* getNodeIdForLocation(location)
GetNodeIdForLocation(loc, thisNode) ==
    IF loc.kind = "host" THEN thisNode ELSE loc.index

\* the loop over the home nodes of a directory-located access
RECURSIVE AddHomeNodes(_, _, _)
AddHomeNodes(bytes, entries, region) ==
    IF entries = << >> THEN bytes
    ELSE LET entry == Head(entries)
             nodeId == entry.home
         IN  AddHomeNodes([bytes EXCEPT ![nodeId] = @ + SubregionSize(region, entry)],
                          Tail(entries), region)

\* processAllDataAccesses with the lambda of getScheduledNode, from access i
RECURSIVE ProcessAllDataAccesses(_, _, _, _, _)
ProcessAllDataAccesses(task, i, acc, k, thisNode) ==
    IF i > Len(task) THEN acc
    ELSE LET access == task[i]
             location == IF access.loc.kind = "null"
                         THEN [kind |-> "dir", index |-> -1] ELSE access.loc
             region == access.region
         IN  IF ~IsClusterMemory(region)
             THEN [acc EXCEPT !.canBeOffloaded = FALSE]
             ELSE IF location.kind = "dir"
                  THEN ProcessAllDataAccesses(task, i + 1,
                           [acc EXCEPT !.bytes =
                               AddHomeNodes(@, DirectoryFind(region, k), region)],
                           k, thisNode)
                  ELSE ProcessAllDataAccesses(task, i + 1,
                           [acc EXCEPT !.bytes[GetNodeIdForLocation(location, thisNode)] =
                               @ + RegionSize(region)],
                           k, thisNode)

\* std::max_element over bytes[0 .. clusterSize)
RECURSIVE MaxElementLastFrom(_, _, _, _)
MaxElementLastFrom(bytes, i, largest, k) ==
    IF i >= k THEN largest
    ELSE IF bytes[largest] <= bytes[i] THEN MaxElementLastFrom(bytes, i + 1, i, k)
    ELSE MaxElementLastFrom(bytes, i + 1, largest, k)

RECURSIVE MaxElementFrom(_, _, _, _)
MaxElementFrom(bytes, i, largest, k) ==
    IF i >= k THEN largest
    ELSE IF bytes[largest] < bytes[i] THEN MaxElementFrom(bytes, i + 1, i, k)
    ELSE MaxElementFrom(bytes, i + 1, largest, k)

MaxElementLast(bytes, k) == MaxElementLastFrom(bytes, 1, 0, k)
MaxElement(bytes, k) == MaxElementFrom(bytes, 1, 0, k)

\* getScheduledNode(task, computePlace, hint): the scores and the result
GetScheduledNodeAlwaysOffloads(task, k, thisNode) ==
    LET acc == ProcessAllDataAccesses(task, 1,
                   [bytes |-> [n \in 0..(k - 1) |-> 0], canBeOffloaded |-> TRUE],
                   k, thisNode)
    IN  [called |-> TRUE,
         node |-> MaxElement(acc.bytes, k),
         bytes |-> acc.bytes,
         canBeOffloaded |-> acc.canBeOffloaded]

\* a scheduler that keeps a task without scores on the node that calls it
GetScheduledNodeStaysLocal(task, k, thisNode) ==
    LET acc == ProcessAllDataAccesses(task, 1,
                   [bytes |-> [n \in 0..(k - 1) |-> 0], canBeOffloaded |-> TRUE],
                   k, thisNode)
    IN  [called |-> TRUE,
         node |-> IF ~acc.canBeOffloaded THEN NoOffload
                  ELSE IF \A n \in 0..(k - 1) : acc.bytes[n] = 0 THEN thisNode
                  ELSE MaxElement(acc.bytes, k),
         bytes |-> acc.bytes,
         canBeOffloaded |-> acc.canBeOffloaded]

GetScheduledNode(task, k, thisNode) ==
    LET acc == ProcessAllDataAccesses(task, 1,
                   [bytes |-> [n \in 0..(k - 1) |-> 0], canBeOffloaded |-> TRUE],
                   k, thisNode)
    IN  [called |-> TRUE,
         node |-> IF ~acc.canBeOffloaded THEN NoOffload ELSE MaxElement(acc.bytes, k),
         bytes |-> acc.bytes,
         canBeOffloaded |-> acc.canBeOffloaded]

\* a worker of this node calls getScheduledNode for a ready task
Schedule(task) ==
    /\ cmPhase = 2
    /\ singleton.exists
    /\ schedTask' = task
    /\ schedResult' = GetScheduledNode(task, ClusterSize, singleton.thisNode)
    /\ UNCHANGED << cfg, singleton, cmPhase, cmLog, activePolling, activeTaskSvc,
                    workers, infoMaps, nsEnabled >>
    /\ UNCHANGED << idVars, notCM >>

\* the scheduler specification: the services run in polling mode without a
\* namespace (neither setting is read by getScheduledNode)
InitSched ==
    /\ InitCM
    /\ ~cfg.inTask /\ ~cfg.useNamespace /\ cfg.master = 0
    /\ cfg.numWorkers = MaxWorkers

\* the services are running
ServicesActive == activePolling + activeTaskSvc > 0

NextCM ==
    \/ Initialize
    \/ MemoryAllocatorInitialize
    \/ Postinitialize
    \/ InitClusterNamespaceOrSetCallback
    \/ ShutdownPhase1
    \/ ShutdownPhase2
    \/ (ServicesActive /\ \E c \in CopySteps : AddOutgoingTransfer(cpRegion[c]))
    \/ (ServicesActive /\ \E i \in 1..Len(pendingQueue) : CompleteTransfer(i))
    \/ \E task \in Tasks(ClusterSize, 1) : Schedule(task)

NextSched ==
    \/ Initialize
    \/ MemoryAllocatorInitialize
    \/ Postinitialize
    \/ (~schedResult.called /\ \E task \in Tasks(ClusterSize, MaxAccesses) : Schedule(task))

(***************************************************************************)
(* ClusterManager::setEarlyRelease                                         *)
(***************************************************************************)
ReleaseTasks == 1..MaxReleaseTasks

\* nanos6_early_release_t
ReleaseModes == {"nanos6_no_wait", "nanos6_autowait", "nanos6_wait"}

\* Task::setDelayedRelease(value)
SetDelayedRelease(flags, value) == [flags EXCEPT !.delayedRelease = value]

\* Task::setDelayedNonLocalRelease()
SetDelayedNonLocalRelease(flags) == [flags EXCEPT !.delayedNonLocalRelease = TRUE]

\* the switch with the bodies of no_wait and wait exchanged
EarlyReleaseFlagsExchanged(flags, mode) ==
    CASE mode = "nanos6_no_wait" -> SetDelayedRelease(flags, TRUE)
      [] mode = "nanos6_autowait" -> SetDelayedNonLocalRelease(flags)
      [] mode = "nanos6_wait" -> SetDelayedRelease(flags, FALSE)

\* the switch of setEarlyRelease
EarlyReleaseFlags(flags, mode) ==
    CASE mode = "nanos6_no_wait" -> SetDelayedRelease(flags, FALSE)
      [] mode = "nanos6_autowait" -> SetDelayedNonLocalRelease(flags)
      [] mode = "nanos6_wait" -> SetDelayedRelease(flags, TRUE)

\* tasks as created: the wait clause decides the delayed-release flag
InitRelease ==
    /\ disableAutowait \in BOOLEAN
    /\ taskFlags \in [ReleaseTasks ->
                        [delayedRelease : BOOLEAN, delayedNonLocalRelease : {FALSE}]]
    /\ lastRelease = [t \in ReleaseTasks |-> "none"]

\* ClusterManager::setEarlyRelease(early_release), called by task t
SetEarlyRelease(t, mode) ==
    /\ taskFlags' = [taskFlags EXCEPT ![t] = EarlyReleaseFlags(@, mode)]
    /\ lastRelease' = [lastRelease EXCEPT ![t] = mode]
    /\ UNCHANGED disableAutowait
    /\ UNCHANGED notRelease

NextRelease == \E t \in ReleaseTasks, mode \in ReleaseModes : SetEarlyRelease(t, mode)

(***************************************************************************)
(* The lock of the pending queue: the scan of requiresDataFetch, the       *)
(* polling service and the completion callbacks                            *)
(***************************************************************************)
\* the threads: the worker calling requiresDataFetch for step c, the polling
\* service, and a worker in the dependency system
Worker(c) == << "worker", c >>
Service == << "service", 0 >>
OtherWorker == << "other", 0 >>

\* what the completion callback of a step does
CallbackActions == {"updateTaskDataAccessLocation", "releaseSuccessors", "delete"}

\* what the predicate of requiresDataFetch does for a transfer it accepts
PredicateActionsInline == CallbackActions
PredicateActions == {"addCompletionCallback"}

\* the locks taken by a set of actions: updateTaskDataAccessLocation takes
\* the lock of the dependency registry
LocksOf(actions) ==
    IF "updateTaskDataAccessLocation" \in actions THEN {"registry"} ELSE {}

\* the pending transfers at the start: for each the steps whose region it
\* contains and whose target it shares
ScanQueues ==
    UNION { [1..n -> [contains : SUBSET CopySteps, callbacks : {<< >>}]] :
                n \in 0..MaxPending }

InitScanLock ==
    /\ queueLock = {}
    /\ registryLock = {}
    /\ scQueue \in ScanQueues
    /\ scPc = [c \in CopySteps |-> "created"]
    /\ scIdx = [c \in CopySteps |-> 0]
    /\ svcPc = "idle"
    /\ svcRun = << >>
    /\ scLocUpdated = [c \in CopySteps |-> 0]
    /\ scReleased = [c \in CopySteps |-> 0]
    /\ scDestroyed = [c \in CopySteps |-> 0]

\* the effect of a set of actions of step c on the step
StepEffects(c, actions) ==
    /\ scLocUpdated' = [scLocUpdated EXCEPT ![c] =
            IF "updateTaskDataAccessLocation" \in actions THEN @ + 1 ELSE @]
    /\ scReleased' = [scReleased EXCEPT ![c] =
            IF "releaseSuccessors" \in actions THEN @ + 1 ELSE @]
    /\ scDestroyed' = [scDestroyed EXCEPT ![c] =
            IF "delete" \in actions THEN @ + 1 ELSE @]

\* checkPendingQueue: the scan starts with the lock taken
ScanAcquire(c) ==
    /\ scPc[c] = "created"
    /\ queueLock = {}
    /\ queueLock' = {Worker(c)}
    /\ scPc' = [scPc EXCEPT ![c] = "scan"]
    /\ scIdx' = [scIdx EXCEPT ![c] = 1]
    /\ UNCHANGED << registryLock, scQueue, svcPc, svcRun, scLocUpdated, scReleased,
                    scDestroyed >>
    /\ UNCHANGED notScanLock

\* the predicate is called for the next pending transfer
ScanVisit(c) ==
    /\ scPc[c] = "scan"
    /\ scIdx[c] <= Len(scQueue)
    /\ LET accepted == c \in scQueue[scIdx[c]].contains
           actions == IF accepted THEN PredicateActions ELSE {}
       IN
       /\ "registry" \in LocksOf(actions) => registryLock = {}
       /\ scQueue' = IF "addCompletionCallback" \in actions
                     THEN [scQueue EXCEPT ![scIdx[c]].callbacks = Append(@, c)]
                     ELSE scQueue
       /\ StepEffects(c, actions)
       /\ scPc' = [scPc EXCEPT ![c] = IF accepted THEN "handled" ELSE @]
       /\ scIdx' = [scIdx EXCEPT ![c] = IF accepted THEN @ ELSE @ + 1]
    /\ UNCHANGED << queueLock, registryLock, svcPc, svcRun >>
    /\ UNCHANGED notScanLock

\* the scan ends, at a transfer the predicate accepted or at the end of the
\* queue, and the lock is released
ScanRelease(c) ==
    /\ \/ scPc[c] = "handled"
       \/ scPc[c] = "scan" /\ scIdx[c] > Len(scQueue)
    /\ queueLock' = queueLock \ {Worker(c)}
    /\ scPc' = [scPc EXCEPT ![c] = IF @ = "handled" THEN "piggy" ELSE "needFetch"]
    /\ UNCHANGED << registryLock, scQueue, scIdx, svcPc, svcRun, scLocUpdated,
                    scReleased, scDestroyed >>
    /\ UNCHANGED notScanLock

\* the polling service takes the lock to look for completed transfers
ServiceAcquire ==
    /\ svcPc = "idle"
    /\ queueLock = {}
    /\ queueLock' = {Service}
    /\ svcPc' = "locked"
    /\ UNCHANGED << registryLock, scQueue, scPc, scIdx, svcRun, scLocUpdated,
                    scReleased, scDestroyed >>
    /\ UNCHANGED notScanLock

\* it finds pending transfer i completed and takes it off the queue
ServiceTake(i) ==
    /\ svcPc = "locked"
    /\ i \in DOMAIN scQueue
    /\ scQueue' = [j \in 1..(Len(scQueue) - 1) |->
                        IF j < i THEN scQueue[j] ELSE scQueue[j + 1]]
    /\ svcRun' = svcRun \o scQueue[i].callbacks
    /\ UNCHANGED << queueLock, registryLock, scPc, scIdx, svcPc, scLocUpdated,
                    scReleased, scDestroyed >>
    /\ UNCHANGED notScanLock

\* it releases the lock
ServiceRelease ==
    /\ svcPc = "locked"
    /\ queueLock' = queueLock \ {Service}
    /\ svcPc' = IF svcRun = << >> THEN "idle" ELSE "callbacks"
    /\ UNCHANGED << registryLock, scQueue, scPc, scIdx, svcRun, scLocUpdated,
                    scReleased, scDestroyed >>
    /\ UNCHANGED notScanLock

\* a completion callback starts, before or after the service has released the
\* lock of the queue: updateTaskDataAccessLocation takes the registry lock
CallbackAcquire ==
    /\ svcPc \in {"locked", "callbacks"}
    /\ svcRun # << >>
    /\ "registry" \in LocksOf(CallbackActions) => registryLock = {}
    /\ registryLock' = registryLock \cup
            (IF "registry" \in LocksOf(CallbackActions) THEN {Service} ELSE {})
    /\ svcPc' = IF svcPc = "locked" THEN "lockedCallback" ELSE "callback"
    /\ UNCHANGED << queueLock, scQueue, scPc, scIdx, svcRun, scLocUpdated,
                    scReleased, scDestroyed >>
    /\ UNCHANGED notScanLock

\* the callback updates the location, releases the successors and deletes
\* the step
CallbackRun ==
    /\ svcPc \in {"lockedCallback", "callback"}
    /\ LET c == Head(svcRun) IN
       /\ StepEffects(c, CallbackActions)
       /\ scPc' = [scPc EXCEPT ![c] = "done"]
    /\ registryLock' = registryLock \ {Service}
    /\ svcRun' = Tail(svcRun)
    /\ svcPc' = IF svcPc = "lockedCallback" THEN "locked"
                ELSE IF Tail(svcRun) = << >> THEN "idle" ELSE "callbacks"
    /\ UNCHANGED << queueLock, scQueue, scIdx >>
    /\ UNCHANGED notScanLock

\* a worker in the dependency system takes and releases the registry lock
RegistryAcquire ==
    /\ registryLock = {}
    /\ registryLock' = {OtherWorker}
    /\ UNCHANGED << queueLock, scQueue, scPc, scIdx, svcPc, svcRun, scLocUpdated,
                    scReleased, scDestroyed >>
    /\ UNCHANGED notScanLock

RegistryRelease ==
    /\ OtherWorker \in registryLock
    /\ registryLock' = registryLock \ {OtherWorker}
    /\ UNCHANGED << queueLock, scQueue, scPc, scIdx, svcPc, svcRun, scLocUpdated,
                    scReleased, scDestroyed >>
    /\ UNCHANGED notScanLock

ScanSteps(c) == ScanAcquire(c) \/ ScanVisit(c) \/ ScanRelease(c)
ServiceSteps ==
    \/ ServiceAcquire
    \/ \E i \in 1..Len(scQueue) : ServiceTake(i)
    \/ ServiceRelease
    \/ CallbackAcquire
    \/ CallbackRun

NextScanLock ==
    \/ \E c \in CopySteps : ScanAcquire(c)
    \/ \E c \in CopySteps : ScanVisit(c)
    \/ \E c \in CopySteps : ScanRelease(c)
    \/ ServiceAcquire
    \/ \E i \in 1..Len(scQueue) : ServiceTake(i)
    \/ ServiceRelease
    \/ CallbackAcquire
    \/ CallbackRun
    \/ RegistryAcquire
    \/ RegistryRelease

(***************************************************************************)
(* _nanos6_loader_main, the main task and its completion callback          *)
(***************************************************************************)
\* the values the wrapped main can return
ReturnCodes == 0..MaxReturnCode

\* the condition of the while loop around pthread_cond_wait
MustWaitAlways(flag) == TRUE
MustWait(flag) == flag = 0

InitBoot ==
    /\ bootPc = "preinit"
    /\ taskPc = "unspawned"
    /\ condMutex = {}
    /\ signaled = 0
    /\ bootCalls = << >>
    /\ wrappedRc \in ReturnCodes
    /\ returnCode = 0
    /\ bootResult = << >>
    /\ spurious = 0
    /\ waits = 0

\* nanos_preinit(); the condVar and argsBlock initialisers;
\* nanos_spawn_function(...); nanos_init()
BootCall ==
    /\ bootPc \in {"preinit", "spawn", "init"}
    /\ bootCalls' = Append(bootCalls,
            CASE bootPc = "preinit" -> "nanos_preinit"
              [] bootPc = "spawn" -> "nanos_spawn_function"
              [] bootPc = "init" -> "nanos_init")
    /\ bootPc' = CASE bootPc = "preinit" -> "spawn"
                   [] bootPc = "spawn" -> "init"
                   [] bootPc = "init" -> "lock"
    /\ taskPc' = IF bootPc = "spawn" THEN "ready" ELSE taskPc
    /\ UNCHANGED << condMutex, signaled, wrappedRc, returnCode, bootResult,
                    spurious, waits >>
    /\ UNCHANGED notBoot

\* pthread_mutex_lock(&condVar._mutex), also on the way out of
\* pthread_cond_wait
BootLock ==
    /\ bootPc \in {"lock", "woken"}
    /\ condMutex = {}
    /\ condMutex' = {"main"}
    /\ bootPc' = "test"
    /\ UNCHANGED << taskPc, signaled, bootCalls, wrappedRc, returnCode, bootResult,
                    spurious, waits >>
    /\ UNCHANGED notBoot

\* while (condVar._signaled == 0) pthread_cond_wait(...): the wait releases
\* the mutex and blocks in one step
BootTest ==
    /\ bootPc = "test"
    /\ IF MustWait(signaled)
       THEN /\ condMutex' = condMutex \ {"main"}
            /\ bootPc' = "waiting"
            /\ waits' = waits + 1
       ELSE /\ bootPc' = "unlock"
            /\ UNCHANGED << condMutex, waits >>
    /\ UNCHANGED << taskPc, signaled, bootCalls, wrappedRc, returnCode, bootResult,
                    spurious >>
    /\ UNCHANGED notBoot

\* pthread_cond_wait may wake up without a signal
SpuriousWakeup ==
    /\ bootPc = "waiting"
    /\ spurious < MaxSpurious
    /\ spurious' = spurious + 1
    /\ bootPc' = "woken"
    /\ UNCHANGED << taskPc, condMutex, signaled, bootCalls, wrappedRc, returnCode,
                    bootResult, waits >>
    /\ UNCHANGED notBoot

\* pthread_mutex_unlock(&condVar._mutex)
BootUnlock ==
    /\ bootPc = "unlock"
    /\ condMutex' = condMutex \ {"main"}
    /\ bootPc' = "shutdown"
    /\ UNCHANGED << taskPc, signaled, bootCalls, wrappedRc, returnCode, bootResult,
                    spurious, waits >>
    /\ UNCHANGED notBoot

\* nanos_shutdown()
BootShutdown ==
    /\ bootPc = "shutdown"
    /\ bootCalls' = Append(bootCalls, "nanos_shutdown")
    /\ bootPc' = "return"
    /\ UNCHANGED << taskPc, condMutex, signaled, wrappedRc, returnCode, bootResult,
                    spurious, waits >>
    /\ UNCHANGED notBoot

\* return argsBlock.returnCode
BootReturn ==
    /\ bootPc = "return"
    /\ bootResult' = << returnCode >>
    /\ bootPc' = "returned"
    /\ UNCHANGED << taskPc, condMutex, signaled, bootCalls, wrappedRc, returnCode,
                    spurious, waits >>
    /\ UNCHANGED notBoot

\* main_task_wrapper: the runtime runs the spawned task, which stores what
\* the wrapped main returns and waits for its children
MainTaskWrapper ==
    /\ taskPc \in {"ready", "taskwait"}
    /\ IF taskPc = "ready"
       THEN /\ returnCode' = wrappedRc
            /\ taskPc' = "taskwait"
       ELSE /\ taskPc' = "callback"
            /\ UNCHANGED returnCode
    /\ UNCHANGED << bootPc, condMutex, signaled, bootCalls, wrappedRc, bootResult,
                    spurious, waits >>
    /\ UNCHANGED notBoot

\* main_completion_callback: pthread_mutex_lock
CallbackLock ==
    /\ taskPc = "callback"
    /\ condMutex = {}
    /\ condMutex' = {"callback"}
    /\ taskPc' = "set"
    /\ UNCHANGED << bootPc, signaled, bootCalls, wrappedRc, returnCode, bootResult,
                    spurious, waits >>
    /\ UNCHANGED notBoot

\* condVar->_signaled = 1
CallbackSet ==
    /\ taskPc = "set"
    /\ signaled' = 1
    /\ taskPc' = "signal"
    /\ UNCHANGED << bootPc, condMutex, bootCalls, wrappedRc, returnCode, bootResult,
                    spurious, waits >>
    /\ UNCHANGED notBoot

\* pthread_cond_signal: a thread blocked in pthread_cond_wait wakes up
CallbackSignal ==
    /\ taskPc = "signal"
    /\ bootPc' = IF bootPc = "waiting" THEN "woken" ELSE bootPc
    /\ taskPc' = "unlock"
    /\ UNCHANGED << condMutex, signaled, bootCalls, wrappedRc, returnCode, bootResult,
                    spurious, waits >>
    /\ UNCHANGED notBoot

\* pthread_mutex_unlock
CallbackUnlock ==
    /\ taskPc = "unlock"
    /\ condMutex' = condMutex \ {"callback"}
    /\ taskPc' = "finished"
    /\ UNCHANGED << bootPc, signaled, bootCalls, wrappedRc, returnCode, bootResult,
                    spurious, waits >>
    /\ UNCHANGED notBoot

\* the steps of the thread running _nanos6_loader_main and those of the
\* thread running the main task
WrapperSteps == BootCall \/ BootLock \/ BootTest \/ BootUnlock \/ BootShutdown \/ BootReturn
TaskSteps == MainTaskWrapper \/ CallbackLock \/ CallbackSet \/ CallbackSignal \/ CallbackUnlock

NextBoot ==
    \/ BootCall
    \/ BootLock
    \/ BootTest
    \/ SpuriousWakeup
    \/ BootUnlock
    \/ BootShutdown
    \/ BootReturn
    \/ MainTaskWrapper
    \/ CallbackLock
    \/ CallbackSet
    \/ CallbackSignal
    \/ CallbackUnlock

(***************************************************************************)
(* CPUManager::preinitialize and CPUManager::initialize                    *)
(***************************************************************************)
SystemCPUIds == 0..(MaxCPUs - 1)
NUMANodes == 0..(MaxNUMANodes - 1)

\* (size_t) ~0UL: every bit set, no index of any vector
InvalidCPUId == -1

\* a nullptr entry of _cpus; the compute places are named by their position
\* in the enumeration, 1 .. Len(hwCPUs)
NullCPU == 0

\* the hosts: compute places with distinct system ids, each in a NUMA node
HostCPUs ==
    { h \in UNION { [1..n -> [systemCPUId : SystemCPUIds, numaNodeId : NUMANodes]] :
                        n \in 1..MaxCPUs } :
        \A i, j \in DOMAIN h : i # j => h[i].systemCPUId # h[j].systemCPUId }

\* CPU_ISSET(cpu->getSystemCPUId(), &processCPUMask)
CpuIsSet(cpu, mask) == cpu.systemCPUId \in mask

\* cpu->getNumaNodeId()
GetNumaNodeIdZero(cpu) == 0
GetNumaNodeId(cpu) == cpu.numaNodeId

\* maxSystemCPUId of preinitialize
RECURSIVE MaxSystemCPUId(_, _)
MaxSystemCPUId(i, max) ==
    IF i > Len(hwCPUs) THEN max
    ELSE MaxSystemCPUId(i + 1,
            IF hwCPUs[i].systemCPUId > max THEN hwCPUs[i].systemCPUId ELSE max)

\* the vectors of preinitialize after their resize
ResizedVectors ==
    [total |-> 0,
     cpus |-> [v \in 0..(Cardinality(processCPUMask) - 1) |-> NullCPU],
     index |-> [i \in DOMAIN hwCPUs |-> 0],
     numa |-> [n \in NUMANodes |-> {}],
     sysToVirt |-> [s \in 0..MaxSystemCPUId(1, 0) |-> 0]]

\* the loop of preinitialize over the compute places i, i + 1, ...
RECURSIVE AssignCPUs(_, _)
AssignCPUs(i, st) ==
    IF i > Len(hwCPUs) THEN st
    ELSE LET cpu == hwCPUs[i] IN
         IF CpuIsSet(cpu, processCPUMask)
         THEN AssignCPUs(i + 1,
                [total |-> st.total + 1,
                 cpus |-> [st.cpus EXCEPT ![st.total] = i],
                 index |-> [st.index EXCEPT ![i] = st.total],
                 numa |-> [st.numa EXCEPT ![GetNumaNodeId(cpu)] = @ \cup {st.total}],
                 sysToVirt |-> [st.sysToVirt EXCEPT ![cpu.systemCPUId] = st.total]])
         ELSE AssignCPUs(i + 1,
                [st EXCEPT !.index[i] = InvalidCPUId,
                           !.sysToVirt[cpu.systemCPUId] = InvalidCPUId])

\* the text of a region list: the regions in the order they were written,
\* << a >> for "a" and << a, b >> for "a-b"
NoCPULists == [initial |-> << >>, numa |-> [n \in NUMANodes |-> << >>]]

\* "Valid region: emit and invalidate": what is appended to the stream
EmitRegion(out, start, end) ==
    Append(out, IF end = start THEN << start >> ELSE << start, end >>)

\* maskToRegionList(boost::dynamic_bitset<> const &mask, std::vector<CPU *> cpus):
\* the loop from virtualCPUId on
RECURSIVE RegionListLoop(_, _, _, _, _, _)
RegionListLoop(v, start, end, out, mask, cpus) ==
    IF v >= Cardinality(DOMAIN cpus) THEN out
    ELSE IF v \in mask
         THEN LET systemCPUId == hwCPUs[cpus[v]].systemCPUId IN
              IF end >= start
              THEN RegionListLoop(v + 1, start, systemCPUId, out, mask, cpus)
              ELSE RegionListLoop(v + 1, systemCPUId, systemCPUId, out, mask, cpus)
         ELSE IF end >= start
              THEN RegionListLoop(v + 1, start, -1, EmitRegion(out, start, end), mask, cpus)
              ELSE RegionListLoop(v + 1, start, end, out, mask, cpus)

MaskToRegionList(mask, cpus) == RegionListLoop(0, 0, -1, << >>, mask, cpus)

\* maskToRegionList(cpu_set_t const &mask, size_t size): the loop from i on,
\* with one more iteration than there are bits
RECURSIVE RegionListOfSetLoop(_, _, _, _, _, _)
RegionListOfSetLoop(i, start, end, out, mask, size) ==
    IF i >= size + 1 THEN out
    ELSE IF i < size /\ i \in mask
         THEN IF end >= start
              THEN RegionListOfSetLoop(i + 1, start, i, out, mask, size)
              ELSE RegionListOfSetLoop(i + 1, i, i, out, mask, size)
         ELSE IF end >= start
              THEN RegionListOfSetLoop(i + 1, start, -1, EmitRegion(out, start, end),
                                       mask, size)
              ELSE RegionListOfSetLoop(i + 1, start, end, out, mask, size)

MaskToRegionListOfSet(mask, size) == RegionListOfSetLoop(0, 0, -1, << >>, mask, size)

\* the static members before preinitialize()
InitCPU ==
    /\ hwCPUs \in HostCPUs
    /\ processCPUMask \in (SUBSET SystemCPUIds) \ {{}}
    /\ cpuPc = "fresh"
    /\ cpusVec = << >>
    /\ totalCPUs = 0
    /\ cpuIndex = [i \in DOMAIN hwCPUs |-> 0]
    /\ NUMANodeMask = << >>
    /\ idleCPUs = {}
    /\ systemToVirtualCPUId = << >>
    /\ finishedCPUInitialization = FALSE
    /\ cpuInitialized = [i \in DOMAIN hwCPUs |-> FALSE]
    /\ workerThreads = << >>
    /\ virtualCPUId = 0
    /\ initializeCalls = 0
    /\ cpuLists = NoCPULists

\* CPUManager::preinitialize()
Preinitialize ==
    /\ cpuPc = "fresh"
    /\ LET st == AssignCPUs(1, ResizedVectors) IN
       /\ totalCPUs' = st.total
       /\ cpusVec' = st.cpus
       /\ cpuIndex' = st.index
       /\ NUMANodeMask' = st.numa
       /\ systemToVirtualCPUId' = st.sysToVirt
       /\ cpuLists' =
             [initial |-> MaskToRegionListOfSet(processCPUMask, Len(hwCPUs)),
              numa |-> [n \in NUMANodes |-> MaskToRegionList(st.numa[n], st.cpus)]]
    /\ idleCPUs' = {}
    /\ finishedCPUInitialization' = FALSE
    /\ cpuPc' = "preinitialized"
    /\ UNCHANGED << hwCPUs, processCPUMask, cpuInitialized, workerThreads,
                    virtualCPUId, initializeCalls >>
    /\ UNCHANGED notCPU

\* CPUManager::initialize(): the loop starts
InitializeEnter ==
    /\ cpuPc \in {"preinitialized", "initialized"}
    /\ initializeCalls < MaxInitializeCalls
    /\ initializeCalls' = initializeCalls + 1
    /\ virtualCPUId' = 0
    /\ cpuPc' = "initializing"
    /\ UNCHANGED << hwCPUs, processCPUMask, cpusVec, totalCPUs, cpuIndex,
                    NUMANodeMask, idleCPUs, systemToVirtualCPUId,
                    finishedCPUInitialization, cpuInitialized, workerThreads,
                    cpuLists >>
    /\ UNCHANGED notCPU

\* CPU::initializeIfNeeded(): true for the first call on a CPU only
InitializeIfNeeded(cpu) == ~cpuInitialized[cpu]

\* if (worked): a worker thread is created and resumed
CreatesThreadAlways(worked) == TRUE
CreatesThread(worked) == worked

\* one iteration of the loop of initialize()
InitializeCPU ==
    /\ cpuPc = "initializing"
    /\ virtualCPUId \in DOMAIN cpusVec
    /\ LET cpu == cpusVec[virtualCPUId] IN
       IF cpu # NullCPU
       THEN /\ cpuInitialized' = [cpuInitialized EXCEPT ![cpu] = TRUE]
            /\ workerThreads' =
                  IF CreatesThread(InitializeIfNeeded(cpu))
                  THEN Append(workerThreads, [cpu |-> cpu, resumedOn |-> cpu])
                  ELSE workerThreads
       ELSE UNCHANGED << cpuInitialized, workerThreads >>
    /\ virtualCPUId' = virtualCPUId + 1
    /\ UNCHANGED << hwCPUs, processCPUMask, cpuPc, cpusVec, totalCPUs, cpuIndex,
                    NUMANodeMask, idleCPUs, systemToVirtualCPUId,
                    finishedCPUInitialization, initializeCalls, cpuLists >>
    /\ UNCHANGED notCPU

\* the loop is over: _finishedCPUInitialization = true
InitializeLeave ==
    /\ cpuPc = "initializing"
    /\ virtualCPUId \notin DOMAIN cpusVec
    /\ finishedCPUInitialization' = TRUE
    /\ cpuPc' = "initialized"
    /\ UNCHANGED << hwCPUs, processCPUMask, cpusVec, totalCPUs, cpuIndex,
                    NUMANodeMask, idleCPUs, systemToVirtualCPUId, cpuInitialized,
                    workerThreads, virtualCPUId, initializeCalls, cpuLists >>
    /\ UNCHANGED notCPU

NextCPU ==
    \/ Preinitialize
    \/ InitializeEnter
    \/ InitializeCPU
    \/ InitializeLeave

(***************************************************************************)
(* Instrument::Profile: the sampling signal handler                        *)
(***************************************************************************)
\* the first two branches of the #if in sigprofHandler
ProfileBuilds == {"libunwind", "backtrace"}

\* the test that makes the handler take a new buffer
NeedsNewBuffer(next, depth, bufferSize) == next + depth > bufferSize + 2

\* the entries one sample writes from position pos on: raw is the number of
\* entries the facility stores (the frames kept, the end-of-backtrace mark and
\* the end-of-buffer mark; backtrace() stores up to depth + 2 raw frames
\* before the handler filters them)
SampleWrites(pos, raw) == pos..(pos + raw - 1)

\* the numbers of raw entries and of frames kept that a sample can have
Samples(build, depth) ==
    { s \in [raw : 2..(depth + 2), kept : 0..depth] :
        /\ s.kept + 2 <= s.raw
        /\ build = "libunwind" => s.raw = s.kept + 2 }

\* a thread before doInit(), with a buffer that holds at least one sample
InitProfile ==
    /\ prBuild \in ProfileBuilds
    /\ profilingBacktraceDepth \in 1..MaxBacktraceDepth
    /\ profilingBufferSize \in (profilingBacktraceDepth + 2)..MaxProfilingBufferSize
    /\ prEnabled = FALSE
    /\ prPc = "start"
    /\ nextBufferPosition = 0
    /\ bufferList = 0
    /\ prWritten = {}
    /\ prSamples = 0

\* Instrument::Profile::doInit()
DoInit ==
    /\ prPc = "start"
    /\ prEnabled' = TRUE
    /\ prPc' = "initialized"
    /\ UNCHANGED << prBuild, profilingBufferSize, profilingBacktraceDepth,
                    nextBufferPosition, bufferList, prWritten, prSamples >>
    /\ UNCHANGED notProfile

\* Instrument::Profile::doCreatedThread(thread): the first buffer, one call
\* of the handler, the sample removed, the timer armed
DoCreatedThread ==
    /\ prPc = "initialized"
    /\ \E s \in Samples(prBuild, profilingBacktraceDepth) :
          prWritten' = {0, 1} \cup SampleWrites(0, s.raw)
    /\ nextBufferPosition' = 0
    /\ bufferList' = bufferList + 1
    /\ prPc' = "profiling"
    /\ UNCHANGED << prBuild, profilingBufferSize, profilingBacktraceDepth, prEnabled,
                    prSamples >>
    /\ UNCHANGED notProfile

\* Instrument::Profile::sigprofHandler: one profiling signal
SigprofHandler ==
    /\ prPc = "profiling"
    /\ prSamples < MaxSamples
    /\ prSamples' = prSamples + 1
    /\ IF ~prEnabled
       THEN \* the timer is disarmed
            /\ prPc' = "disarmed"
            /\ prWritten' = {}
            /\ UNCHANGED << nextBufferPosition, bufferList >>
       ELSE LET fresh == NeedsNewBuffer(nextBufferPosition, profilingBacktraceDepth,
                                        profilingBufferSize)
                pos == IF fresh THEN 0 ELSE nextBufferPosition
            IN  /\ bufferList' = IF fresh THEN bufferList + 1 ELSE bufferList
                /\ \E s \in Samples(prBuild, profilingBacktraceDepth) :
                      /\ prWritten' = SampleWrites(pos, s.raw)
                      /\ nextBufferPosition' = pos + s.kept + 1
                /\ UNCHANGED prPc
    /\ UNCHANGED << prBuild, profilingBufferSize, profilingBacktraceDepth, prEnabled >>
    /\ UNCHANGED notProfile

\* Instrument::Profile::doShutdown(): profiling is disabled, the buffers are
\* read up to their end mark and freed
DoShutdown ==
    /\ prPc \in {"initialized", "profiling"}
    /\ prEnabled
    /\ prEnabled' = FALSE
    /\ bufferList' = 0
    /\ prWritten' = {}
    /\ UNCHANGED << prBuild, profilingBufferSize, profilingBacktraceDepth, prPc,
                    nextBufferPosition, prSamples >>
    /\ UNCHANGED notProfile

NextProfile ==
    \/ DoInit
    \/ DoCreatedThread
    \/ SigprofHandler
    \/ DoShutdown

(***************************************************************************)
(* Specifications: one per component, the others idle                      *)
(***************************************************************************)
IdleBoot ==
    /\ bootPc = "returned"
    /\ taskPc = "finished"
    /\ condMutex = {}
    /\ signaled = 1
    /\ bootCalls = << >>
    /\ wrappedRc = 0
    /\ returnCode = 0
    /\ bootResult = << >>
    /\ spurious = 0
    /\ waits = 0

IdleCPU ==
    /\ hwCPUs = << >>
    /\ processCPUMask = {}
    /\ cpuPc = "unused"
    /\ cpusVec = << >>
    /\ totalCPUs = 0
    /\ cpuIndex = << >>
    /\ NUMANodeMask = << >>
    /\ idleCPUs = {}
    /\ systemToVirtualCPUId = << >>
    /\ finishedCPUInitialization = FALSE
    /\ cpuInitialized = << >>
    /\ workerThreads = << >>
    /\ virtualCPUId = 0
    /\ initializeCalls = 0
    /\ cpuLists = NoCPULists

IdleScanLock ==
    /\ queueLock = {}
    /\ registryLock = {}
    /\ scQueue = << >>
    /\ scPc = [c \in CopySteps |-> "done"]
    /\ scIdx = [c \in CopySteps |-> 0]
    /\ svcPc = "idle"
    /\ svcRun = << >>
    /\ scLocUpdated = [c \in CopySteps |-> 0]
    /\ scReleased = [c \in CopySteps |-> 0]
    /\ scDestroyed = [c \in CopySteps |-> 0]

IdleRelease ==
    /\ disableAutowait = FALSE
    /\ taskFlags = [t \in ReleaseTasks |->
                       [delayedRelease |-> FALSE, delayedNonLocalRelease |-> FALSE]]
    /\ lastRelease = [t \in ReleaseTasks |-> "none"]

IdleLink ==
    /\ lkSize = 1 /\ lkRead = FALSE /\ lkWrite = FALSE /\ lkSource = 0
    /\ bytesToLink = 0 /\ started = FALSE /\ lockHolder = {}
    /\ lkPc = [t \in Threads |-> "idle"]
    /\ lkArgs = [t \in Threads |-> NoArgs]
    /\ lkDelete = [t \in Threads |-> FALSE]
    /\ destroyed = 0 /\ released = 0 /\ dataLinks = << >> /\ satMap = << >>
    /\ readDelivered = 0 /\ writeDelivered = 0 /\ zeroHits = 0
    /\ useAfterFree = FALSE

IdleCopy ==
    /\ msgMaxSize = 1
    /\ cpRegion = [c \in CopySteps |-> [s |-> 0, e |-> 1]]
    /\ cpNeeds = [c \in CopySteps |-> FALSE]
    /\ cpRegLoc = [c \in CopySteps |-> FALSE]
    /\ cpWid = [c \in CopySteps |-> 1]
    /\ cpPc = [c \in CopySteps |-> "created"]
    /\ cpFragsLeft = [c \in CopySteps |-> 1]
    /\ cpReleased = [c \in CopySteps |-> 0]
    /\ cpDestroyed = [c \in CopySteps |-> 0]
    /\ cpLocUpdated = [c \in CopySteps |-> 0]
    /\ cpWidRegistered = [c \in CopySteps |-> 0]
    /\ cpSawPending = [c \in CopySteps |-> FALSE]
    /\ pendingQueue = << >>
    /\ sentFetches = << >>
    /\ widCache = {}

IdleIds ==
    /\ idCfg = [disabled |-> TRUE, size |-> 1]
    /\ idCtr = [n \in Nodes |-> NoCounters]
    /\ idLog = << >>

IdleCM ==
    /\ cfg = [comm |-> "disabled", inTask |-> FALSE, useNamespace |-> FALSE,
              numWorkers |-> 0, size |-> 1, index |-> 0, master |-> 0]
    /\ singleton = NullSingleton
    /\ cmPhase = 0
    /\ cmLog = << >>
    /\ activePolling = 0
    /\ activeTaskSvc = 0
    /\ workers = 0
    /\ infoMaps = FALSE
    /\ nsEnabled = FALSE
    /\ schedTask = << >>
    /\ schedResult = NoResult
    /\ memAllocInit = FALSE

IdleFetch == fvCalls = {}

IdleProfile ==
    /\ prBuild = "libunwind"
    /\ profilingBufferSize = 0 /\ profilingBacktraceDepth = 0
    /\ prEnabled = FALSE /\ prPc = "unused"
    /\ nextBufferPosition = 0 /\ bufferList = 0 /\ prWritten = {} /\ prSamples = 0

vars == << linkVars, copyVars, idVars, cmVars, runtimeVars, releaseVars,
          scanLockVars, bootVars, cpuVars, fetchVars, profileVars >>

InitLinkOnly ==
    /\ InitLink
    /\ IdleCopy /\ IdleIds /\ IdleCM /\ IdleRelease
    /\ IdleScanLock /\ IdleBoot /\ IdleCPU /\ IdleFetch /\ IdleProfile
InitCopyOnly ==
    /\ InitCopy
    /\ IdleLink /\ IdleIds /\ IdleCM /\ IdleRelease
    /\ IdleScanLock /\ IdleBoot /\ IdleCPU /\ IdleFetch /\ IdleProfile
InitIdsOnly ==
    /\ InitIds
    /\ IdleLink /\ IdleCopy /\ IdleCM /\ IdleRelease
    /\ IdleScanLock /\ IdleBoot /\ IdleCPU /\ IdleFetch /\ IdleProfile
InitCMOnly ==
    /\ InitCM
    /\ IdleLink /\ IdleCopy /\ IdleRelease
    /\ IdleScanLock /\ IdleBoot /\ IdleCPU /\ IdleFetch /\ IdleProfile
InitSchedOnly ==
    /\ InitSched
    /\ IdleLink /\ IdleCopy /\ IdleRelease
    /\ IdleScanLock /\ IdleBoot /\ IdleCPU /\ IdleFetch /\ IdleProfile
InitReleaseOnly ==
    /\ InitRelease
    /\ IdleLink /\ IdleCopy /\ IdleIds /\ IdleCM
    /\ IdleScanLock /\ IdleBoot /\ IdleCPU /\ IdleFetch /\ IdleProfile
InitScanLockOnly ==
    /\ InitScanLock /\ IdleLink /\ IdleCopy /\ IdleIds /\ IdleCM /\ IdleRelease
    /\ IdleBoot /\ IdleCPU /\ IdleFetch /\ IdleProfile
InitBootOnly ==
    /\ InitBoot /\ IdleLink /\ IdleCopy /\ IdleIds /\ IdleCM /\ IdleRelease
    /\ IdleScanLock /\ IdleCPU /\ IdleFetch /\ IdleProfile
InitCPUOnly ==
    /\ InitCPU /\ IdleLink /\ IdleCopy /\ IdleIds /\ IdleCM /\ IdleRelease
    /\ IdleScanLock /\ IdleBoot /\ IdleFetch /\ IdleProfile
InitScanOnly ==
    /\ InitScan
    /\ IdleLink /\ IdleIds /\ IdleCM /\ IdleRelease
    /\ IdleScanLock /\ IdleBoot /\ IdleCPU /\ IdleFetch /\ IdleProfile
InitFetchOnly ==
    /\ InitFetch
    /\ IdleLink /\ IdleIds /\ IdleCM /\ IdleRelease
    /\ IdleScanLock /\ IdleBoot /\ IdleCPU /\ IdleProfile

InitProfileOnly ==
    /\ InitProfile
    /\ IdleLink /\ IdleCopy /\ IdleIds /\ IdleCM /\ IdleRelease
    /\ IdleScanLock /\ IdleBoot /\ IdleCPU /\ IdleFetch

SpecLink == InitLinkOnly /\ [][NextLink]_vars
SpecCopy == InitCopyOnly /\ [][NextCopy]_vars
SpecIds == InitIdsOnly /\ [][NextIds]_vars
SpecCM == InitCMOnly /\ [][NextCM]_vars
SpecSched == InitSchedOnly /\ [][NextSched]_vars
SpecRelease == InitReleaseOnly /\ [][NextRelease]_vars
SpecScan == InitScanOnly /\ [][NextScan]_vars
SpecFetch == InitFetchOnly /\ [][NextFetch]_vars
SpecProfile == InitProfileOnly /\ [][NextProfile]_vars
SpecScanLock == InitScanLockOnly /\ [][NextScanLock]_vars
SpecBoot == InitBootOnly /\ [][NextBoot]_vars
SpecBootFair == SpecBoot /\ WF_vars(WrapperSteps) /\ WF_vars(TaskSteps)
SpecCPU == InitCPUOnly /\ [][NextCPU]_vars

(***************************************************************************)
(* Claims about ClusterDataLinkStep (checked under SpecLink)               *)
(***************************************************************************)
\* no thread is inside start() or linkRegion()
LinkQuiet == \A t \in Threads : lkPc[t] \in {"idle", "done"}

\* start() has returned and read and write satisfiability have each been
\* handed to the step exactly once (at construction or through linkRegion)
AllLinkedOnce ==
    /\ lkPc[0] = "done"
    /\ LinkQuiet
    /\ readDelivered = 1
    /\ writeDelivered = 1

\* C1: every ClusterDataLinkStep is destroyed exactly once: never twice, and
\* the call (start or linkRegion) that decided under the step lock that the
\* step is to be deleted (it observed _bytesToLink == 0) has destroyed it
\* by the time it returns.
C1_DestroyedExactlyOnce ==
    /\ destroyed <= 1
    /\ \A t \in Threads : (lkPc[t] = "done" /\ lkDelete[t]) => destroyed = 1

\* C2: the critical sections of start() and linkRegion() never overlap,
\* _bytesToLink is never decremented below zero and it reaches zero at most
\* once.
C2_CounterDiscipline ==
    /\ Cardinality(lockHolder) <= 1
    /\ bytesToLink >= 0
    /\ zeroHits <= 1

\* a linkRegion call whose (read, write, location) was already linked by an
\* earlier linkRegion call on the same access
IsDuplicateCall(t) ==
    \E i \in DOMAIN satMap :
        /\ satMap[i].read = lkArgs[t].read
        /\ satMap[i].write = lkArgs[t].write
        /\ satMap[i].locationIndex = LocationIndex(lkArgs[t].loc)

\* C3: delivering the same satisfiability a second time through linkRegion
\* leaves the step's state (_bytesToLink, whether it is to be destroyed)
\* as it was after the first delivery.
C3_IdempotentLink ==
    [][\A t \in LinkThreads :
          (lkPc[t] = "cs" /\ IsDuplicateCall(t) /\ LinkBody(t))
              => (bytesToLink' = bytesToLink /\ ~lkDelete'[t])]_vars

\* C5: workflow termination for the data-link step: once every piece of
\* satisfiability has been delivered and no call is in progress, the step is
\* done: it has started, released its successors and been freed.
C5_LinkStepReachesDone ==
    AllLinkedOnce => (released = 1 /\ Len(dataLinks) = 1 /\ destroyed >= 1)
(***************************************************************************)
(* Claims about ClusterDataCopyStep (checked under SpecCopy)               *)
(***************************************************************************)
\* step c is named in a MessageDataFetch that was sent
Issued(c) ==
    \E m \in DOMAIN sentFetches :
        \E i \in DOMAIN sentFetches[m].steps : sentFetches[m].steps[i] = c

\* the completion callbacks step c has added to pending transfers
CallbacksOf(c) ==
    { << i, j >> \in (DOMAIN pendingQueue) \X (1..2) :
        j \in DOMAIN pendingQueue[i].callbacks /\ pendingQueue[i].callbacks[j] = c }

\* C4 (as claimed): fetch coalescing under every interleaving and every
\* message_max_size: two fetch steps that need a transfer to this node, with
\* R1 contained in R2, never both have a network fetch of their own in flight.
C4_AtMostOneFetch ==
    \A a, b \in CopySteps :
        (a # b /\ FullyContainedIn(cpRegion[a], cpRegion[b]))
            => ~(cpPc[a] = "fetching" /\ cpPc[b] = "fetching")

\* C4 (amended): a step that needs a transfer and whose requiresDataFetch
\* finds in the pending queue a transfer to this node that fully contains its
\* region issues no DataFetch and adds exactly one completion callback to a
\* pending transfer; a step only piggy-backs in that case.
C4_CoalescesOnPendingTransfer ==
    \A c \in CopySteps :
        /\ cpSawPending[c] =>
              /\ cpPc[c] \in {"piggy", "done"}
              /\ ~Issued(c)
              /\ Cardinality(CallbacksOf(c)) = (IF cpPc[c] = "piggy" THEN 1 ELSE 0)
        /\ cpPc[c] = "piggy" => cpSawPending[c]

\* C4 witness: the step for R1 piggy-backs on the single pending fetch of a
\* step whose region R2 strictly contains R1
C4_Witness ==
    \E a, b \in CopySteps :
        /\ a # b
        /\ cpPc[a] = "piggy" /\ cpSawPending[a]
        /\ cpPc[b] = "fetching"
        /\ FullyContainedIn(cpRegion[a], cpRegion[b])
        /\ cpRegion[a] # cpRegion[b]
        /\ Len(sentFetches) = 1

RECURSIVE SumBytes(_, _)
SumBytes(bytes, n) == IF n < 0 THEN 0 ELSE bytes[n] + SumBytes(bytes, n - 1)

RECURSIVE TotalSize(_, _)
TotalSize(task, i) ==
    IF i > Len(task) THEN 0 ELSE RegionSize(task[i].region) + TotalSize(task, i + 1)

AllInClusterMemory(task) == \A i \in DOMAIN task : IsClusterMemory(task[i].region)

\* the bytes of region whose home node is n
HomeBytes(region, n, k) ==
    Cardinality({ a \in region.s..(region.e - 1) : a \div HomeBlock(k) = n })

\* the score the claim gives node n: per directory-located (or not yet
\* located) access the part of the region homed at n, per other access its
\* full size when it is located at n
RECURSIVE ExpectedScore(_, _, _, _, _)
ExpectedScore(task, i, n, k, thisNode) ==
    IF i > Len(task) THEN 0
    ELSE (IF task[i].loc.kind \in {"null", "dir"}
          THEN HomeBytes(task[i].region, n, k)
          ELSE IF (task[i].loc.kind = "host" /\ n = thisNode)
                    \/ (task[i].loc.kind = "node" /\ n = task[i].loc.index)
               THEN RegionSize(task[i].region)
               ELSE 0)
         + ExpectedScore(task, i + 1, n, k, thisNode)

\* C7: locality-scheduler conservation: for a task all of whose accesses lie
\* in cluster memory the per-node scores are the ones the claim describes,
\* they add up to the total size of the task's accesses, and the returned
\* node has the maximum score.
C7_ScoreConservation ==
    (schedResult.called /\ AllInClusterMemory(schedTask)) =>
        /\ \A n \in 0..(cfg.size - 1) :
              schedResult.bytes[n] =
                  ExpectedScore(schedTask, 1, n, cfg.size, cfg.index)
        /\ SumBytes(schedResult.bytes, cfg.size - 1) = TotalSize(schedTask, 1)
        /\ schedResult.node \in 0..(cfg.size - 1)
        /\ \A n \in 0..(cfg.size - 1) :
              schedResult.bytes[n] <= schedResult.bytes[schedResult.node]

\* C7 witness: a two-access task in cluster memory, one access located by the
\* directory that spans the blocks of two home nodes, one located at a node
C7_Witness ==
    /\ schedResult.called
    /\ AllInClusterMemory(schedTask)
    /\ Len(schedTask) = 2
    /\ \E i, j \in DOMAIN schedTask :
          /\ schedTask[i].loc.kind = "dir"
          /\ Len(DirectoryFind(schedTask[i].region, cfg.size)) = 2
          /\ schedTask[j].loc.kind = "node"

\* C8: ties are broken by the lowest node index: every node before the
\* returned one has a strictly smaller score.
C8_FirstMaximum ==
    (schedResult.called /\ schedResult.canBeOffloaded) =>
        \A n \in 0..(cfg.size - 1) :
            n < schedResult.node =>
                schedResult.bytes[n] < schedResult.bytes[schedResult.node]

\* C8 witness: a two-node cluster, both nodes with the same non-zero score,
\* node 0 returned
C8_Witness ==
    /\ schedResult.called
    /\ schedResult.canBeOffloaded
    /\ cfg.size = 2
    /\ schedResult.bytes[0] = schedResult.bytes[1]
    /\ schedResult.bytes[0] > 0
    /\ schedResult.node = 0

\* C9: a task with an access outside cluster memory is not offloaded:
\* getScheduledNode returns nanos6_cluster_no_offload.
C9_NoOffloadOutsideClusterMemory ==
    (schedResult.called /\ ~AllInClusterMemory(schedTask)) =>
        schedResult.node = NoOffload

\* C9 witness: the access outside cluster memory is the second one, after an
\* access that already added to the score of a remote node
C9_Witness ==
    /\ schedResult.called
    /\ Len(schedTask) = 2
    /\ IsClusterMemory(schedTask[1].region)
    /\ ~IsClusterMemory(schedTask[2].region)
    /\ \E n \in 0..(cfg.size - 1) : n # cfg.index /\ schedResult.bytes[n] > 0
    /\ schedResult.node = NoOffload

(***************************************************************************)
(* Claims about the ClusterManager lifecycle (checked under SpecCM)        *)
(***************************************************************************)
\* C10: with cluster.communication = disabled the manager is a single-node
\* cluster: one node, index 0, this node and master; no messenger; not in
\* cluster mode; the scheduler returns node 0 or no-offload; the four
\* lifecycle calls can each run in turn and none of them starts a service,
\* sends a message or calls the messenger.
C10_SingleNodeMode ==
    cfg.comm = "disabled" =>
        /\ cmLog = << >>
        /\ activePolling = 0 /\ activeTaskSvc = 0 /\ workers = 0 /\ ~infoMaps
        /\ singleton.exists =>
              /\ singleton.nodes = << ClusterNode(0, 0) >>
              /\ singleton.thisNode = 0
              /\ singleton.masterNode = 0
              /\ ~singleton.msn
              /\ ~InClusterMode
        /\ schedResult.called => schedResult.node \in {0, NoOffload}
        /\ cmPhase = 0 => ENABLED Initialize
        /\ (cmPhase = 1 /\ ~memAllocInit) => ENABLED MemoryAllocatorInitialize
        /\ (cmPhase = 1 /\ memAllocInit) => ENABLED Postinitialize
        /\ cmPhase = 2 => ENABLED ShutdownPhase1
        /\ cmPhase = 3 => ENABLED ShutdownPhase2

\* C10 witness: single-node mode (although cluster.use_namespace and
\* cluster.services_in_task are set), all four lifecycle calls have returned
\* and a task was scheduled in between
C10_Witness ==
    /\ cfg.comm = "disabled"
    /\ cfg.useNamespace /\ cfg.inTask
    /\ cmPhase = 4
    /\ schedResult.called
    /\ Len(schedTask) = 1

(***************************************************************************)
(* Claims about fragments and completion (checked under SpecCopy)          *)
(***************************************************************************)
\* the pending transfers that are fragments of step c, in queue order
RECURSIVE OwnedBy(_, _)
OwnedBy(queue, c) ==
    IF queue = << >> THEN << >>
    ELSE (IF Head(queue).owner = c THEN << Head(queue).region >> ELSE << >>)
         \o OwnedBy(Tail(queue), c)

\* the sent MessageDataFetch messages that name step c
FetchesNaming(c) ==
    { m \in DOMAIN sentFetches :
        \E i \in DOMAIN sentFetches[m].steps : sentFetches[m].steps[i] = c }

WellFragmented(f, region, max) ==
    LET n == Len(f) IN
    /\ n >= 1
    /\ n * max >= RegionSize(region) /\ (n - 1) * max < RegionSize(region)
    /\ f[1].s = region.s /\ f[n].e = region.e
    /\ \A i \in 1..(n - 1) : f[i].e = f[i + 1].s
    /\ \A i \in 1..n : f[i].s < f[i].e /\ RegionSize(f[i]) <= max
    /\ \A i \in 1..(n - 1) : RegionSize(f[i]) = max
    /\ RegionSize(region) = max => n = 1
    /\ RegionSize(region) = max + 1 => (n = 2 /\ RegionSize(f[2]) = 1)

\* C14: the fragments of every copy step are contiguous, in address order,
\* cover the region exactly, are at most message_max_size long and all but
\* the last exactly that long; their number is ceil(size / message_max_size),
\* the value of getMPIFragments; a fetched step has queued exactly them.
C14_FragmentsCoverRegion ==
    \A c \in CopySteps :
        /\ WellFragmented(Fragments(cpRegion[c], msgMaxSize), cpRegion[c], msgMaxSize)
        /\ Len(Fragments(cpRegion[c], msgMaxSize)) = GetMPIFragments(cpRegion[c], msgMaxSize)
        /\ (cpPc[c] = "fetching" /\ cpFragsLeft[c] = GetMPIFragments(cpRegion[c], msgMaxSize))
              => OwnedBy(pendingQueue, c) = Fragments(cpRegion[c], msgMaxSize)

\* C14 witness: a fetched step whose region is one byte longer than
\* message_max_size (more than one byte): two fragments, the second of one byte
C14_Witness ==
    \E c \in CopySteps :
        /\ cpPc[c] = "fetching"
        /\ msgMaxSize > 1
        /\ RegionSize(cpRegion[c]) = msgMaxSize + 1
        /\ Len(OwnedBy(pendingQueue, c)) = 2
        /\ RegionSize(OwnedBy(pendingQueue, c)[2]) = 1

\* C15 (as claimed): a fetched step has as many DataFetch messages sent for
\* it as it has fragments.
C15_OneMessagePerFragment ==
    \A c \in CopySteps :
        Issued(c) =>
            Cardinality(FetchesNaming(c)) = GetMPIFragments(cpRegion[c], msgMaxSize)

RECURSIVE FragmentCount(_)
FragmentCount(steps) ==
    IF steps = << >> THEN 0
    ELSE GetMPIFragments(cpRegion[Head(steps)], msgMaxSize) + FragmentCount(Tail(steps))

\* C15 (amended): a fetchVector call sends exactly one MessageDataFetch, which
\* names every fragment of every step of the vector, and queues one pending
\* transfer per fragment: a fetched step is named in exactly one message,
\* the message's fragment count is the number of fragments of its steps, and
\* the step's transfers still pending are as many as its fragments not yet
\* completed.
C15_OneMessagePerFetchVector ==
    /\ \A c \in CopySteps :
          Issued(c) =>
              /\ Cardinality(FetchesNaming(c)) = 1
              /\ Len(OwnedBy(pendingQueue, c)) = cpFragsLeft[c]
    /\ \A m \in DOMAIN sentFetches :
          sentFetches[m].nFragments = FragmentCount(sentFetches[m].steps)

\* C15 witness: a step of three fragments was fetched with one message and
\* has three transfers pending
C15_Witness ==
    \E c \in CopySteps :
        /\ Issued(c)
        /\ GetMPIFragments(cpRegion[c], msgMaxSize) = 3
        /\ Len(sentFetches) = 1
        /\ Len(OwnedBy(pendingQueue, c)) = 3

\* C16: a fetched step of n fragments has none of the four completion
\* effects (location update, write-ID registration, release of successors,
\* destruction) before its n-th fragment completed, and each exactly once
\* from then on, in every order of the completions.
C16_CompletionEffectsOnce ==
    \A c \in CopySteps :
        Issued(c) =>
            /\ cpFragsLeft[c] \in 0..GetMPIFragments(cpRegion[c], msgMaxSize)
            /\ cpFragsLeft[c] > 0 =>
                  /\ cpPc[c] = "fetching"
                  /\ cpLocUpdated[c] = 0 /\ cpWidRegistered[c] = 0
                  /\ cpReleased[c] = 0 /\ cpDestroyed[c] = 0
            /\ cpFragsLeft[c] = 0 =>
                  /\ cpPc[c] = "done"
                  /\ cpLocUpdated[c] = 1 /\ cpWidRegistered[c] = 1
                  /\ cpReleased[c] = 1 /\ cpDestroyed[c] = 1
                  /\ [wid |-> cpWid[c], region |-> cpRegion[c]] \in widCache

\* C16 witness: a step of two fragments or more, all of them completed
C16_Witness ==
    \E c \in CopySteps :
        /\ Issued(c)
        /\ GetMPIFragments(cpRegion[c], msgMaxSize) >= 2
        /\ cpFragsLeft[c] = 0
        /\ cpDestroyed[c] = 1

\* C17: late write-ID match: a requiresDataFetch call of a step that needs a
\* transfer and whose write ID is by then local for the full region sends no
\* DataFetch, leaves the pending queue as it is, updates the location,
\* releases the successors, destroys the step and returns false.
C17_LateWriteIDMatch ==
    [][\A c \in CopySteps :
          (/\ cpPc[c] = "created"
           /\ cpPc'[c] # "created"
           /\ cpNeeds[c]
           /\ CheckWriteIDLocal(widCache, cpWid[c], cpRegion[c]))
              => /\ cpPc'[c] = "done"
                 /\ sentFetches' = sentFetches
                 /\ pendingQueue' = pendingQueue
                 /\ cpLocUpdated'[c] = cpLocUpdated[c] + 1
                 /\ cpReleased'[c] = cpReleased[c] + 1
                 /\ cpDestroyed'[c] = cpDestroyed[c] + 1]_vars

\* C17 witness: a step that needed a transfer is done although no DataFetch
\* was ever sent; its write ID is in the cache
C17_Witness ==
    \E c \in CopySteps :
        /\ cpNeeds[c]
        /\ cpPc[c] = "done"
        /\ sentFetches = << >>
        /\ CheckWriteIDLocal(widCache, cpWid[c], cpRegion[c])
        /\ cpLocUpdated[c] = 1 /\ cpReleased[c] = 1 /\ cpDestroyed[c] = 1

(***************************************************************************)
(* Claims about shutdown and initialisation (checked under SpecCM)         *)
(***************************************************************************)
\* the configured role of this node
CfgClusterMode == cfg.comm # "disabled" /\ cfg.size > 1
CfgMaster == cfg.index = cfg.master

ShutdownStage(op) ==
    CASE op \in {"ClusterServicesTask::waitUntilFinished",
                 "ClusterServicesPolling::waitUntilFinished"} -> 1
      [] op = "NodeNamespace::notifyShutdown" -> 2
      [] op = "msn.sendMessage SysFinish blocking" -> 3
      [] op = "msn.synchronizeAll" -> 4
      [] op \in {"ClusterServicesTask::shutdown", "ClusterServicesPolling::shutdown"} -> 5
      [] op = "shutdownWorkers" -> 6
      [] op = "RemoteTasksInfoMap::shutdown" -> 7
      [] op = "OffloadedTasksInfoMap::shutdown" -> 8
      [] op = "msn.shutdown" -> 9
      [] op = "NodeNamespace::deallocate" -> 10
      [] OTHER -> 0

\* the calls logged before shutdownPhase1 waits for the services: the
\* constructor's, postinitialize's and the namespace's
CallsBeforeShutdown ==
    Cardinality({ i \in DOMAIN cmLog :
                    \A j \in 1..i : ShutdownStage(cmLog[j].op) # 1 })

StagesPresent == { ShutdownStage(cmLog[i].op) : i \in (CallsBeforeShutdown + 1)..Len(cmLog) }

\* C12: in cluster mode the calls of shutdownPhase1 come in the claimed
\* order: wait for the services, notify the namespace (master with namespace),
\* SysFinish to the slaves and then synchronizeAll (master), service and
\* worker shutdown, the two info maps, the messenger last; no barrier and no
\* service call follows the messenger's shutdown.
C12_ShutdownOrder ==
    (cmPhase >= 3 /\ CfgClusterMode) =>
        /\ \A i, j \in (CallsBeforeShutdown + 1)..Len(cmLog) :
              i < j =>
                  \/ ShutdownStage(cmLog[i].op) < ShutdownStage(cmLog[j].op)
                  \/ (ShutdownStage(cmLog[i].op) = 3 /\ ShutdownStage(cmLog[j].op) = 3)
        /\ \A i \in 1..CallsBeforeShutdown :
              ShutdownStage(cmLog[i].op) = (IF i = 2 THEN 4 ELSE 0)
        /\ StagesPresent \ {10} =
              {1, 5, 6, 7, 8, 9}
                  \cup (IF CfgMaster /\ cfg.useNamespace THEN {2} ELSE {})
                  \cup (IF CfgMaster THEN {3, 4} ELSE {})
        /\ \A i \in DOMAIN cmLog :
              /\ cmLog[i].op = "ClusterServicesTask::shutdown" => cfg.inTask
              /\ cmLog[i].op = "ClusterServicesPolling::shutdown" => ~cfg.inTask

\* C12 witness: the master of a cluster with the namespace enabled has
\* returned from shutdownPhase1: every step of the order was taken
C12_Witness ==
    /\ cmPhase = 3
    /\ CfgClusterMode /\ CfgMaster /\ cfg.useNamespace
    /\ cmLog[Len(cmLog)].op = "msn.shutdown"
    /\ \E i \in DOMAIN cmLog : cmLog[i].op = "NodeNamespace::notifyShutdown"

SysFinishTo(n) ==
    { i \in DOMAIN cmLog :
        cmLog[i].op = "msn.sendMessage SysFinish blocking" /\ cmLog[i].node = n }

\* C13: in shutdownPhase1 the master sends one blocking SysFinish to every
\* other node and none to itself, all before its synchronizeAll; a node that
\* is not the master sends none; none is sent before shutdownPhase1.
C13_SysFinishOncePerSlave ==
    /\ cmPhase < 3 => \A n \in Nodes : SysFinishTo(n) = {}
    /\ (cmPhase >= 3 /\ ~(cfg.comm # "disabled" /\ CfgMaster)) =>
          \A n \in Nodes : SysFinishTo(n) = {}
    /\ (cmPhase >= 3 /\ cfg.comm # "disabled" /\ CfgMaster) =>
          /\ \A n \in Nodes :
                Cardinality(SysFinishTo(n)) =
                    (IF n < cfg.size /\ n # cfg.index THEN 1 ELSE 0)
          /\ \A n \in Nodes : \A i \in SysFinishTo(n) :
                \E j \in DOMAIN cmLog :
                    /\ i < j
                    /\ cmLog[j].op = "msn.synchronizeAll"
                    /\ \A k \in DOMAIN cmLog :
                          cmLog[k].op = "msn.synchronizeAll" => k <= j

\* C13 witness: a master that is not node 0 has sent SysFinish to node 0
C13_Witness ==
    /\ cmPhase = 3
    /\ CfgMaster /\ cfg.index # 0
    /\ SysFinishTo(0) # {}

C20_SingletonLifecycle ==
    /\ singleton.exists = (cmPhase \in 1..3)
    /\ (ENABLED Initialize) => ~singleton.exists
    /\ (ENABLED Postinitialize) => singleton.exists
    /\ (ENABLED ShutdownPhase1) => singleton.exists
    /\ (ENABLED ShutdownPhase2) => singleton.exists
    /\ cmPhase = 4 => (~nsEnabled /\ singleton = NullSingleton)

\* C20 witness: shutdownPhase2() has returned on a node that had its
\* namespace enabled
C20_Witness ==
    /\ cmPhase = 4
    /\ ~singleton.exists
    /\ \E i \in DOMAIN cmLog : cmLog[i].op = "NodeNamespace::deallocate"

(***************************************************************************)
(* Claims about setEarlyRelease (checked under SpecRelease)                *)
(***************************************************************************)
\* the release mode a task's flags amount to
EffectiveMode(flags) ==
    IF flags.delayedRelease THEN "nanos6_wait"
    ELSE IF flags.delayedNonLocalRelease THEN "nanos6_autowait"
    ELSE "nanos6_no_wait"

\* C18: with cluster.disable_autowait set, a task whose last call was
\* set_early_release(autowait) is in release mode no_wait: its
\* delayed-release flag is off, as after set_early_release(no_wait), and it
\* does not wait for non-local releases.
C18_DisabledAutowaitIsNoWait ==
    \A t \in ReleaseTasks :
        (disableAutowait /\ lastRelease[t] = "nanos6_autowait") =>
            /\ ~taskFlags[t].delayedRelease
            /\ EffectiveMode(taskFlags[t]) = "nanos6_no_wait"

(***************************************************************************)
(* Claims about the node registry (checked under SpecCM)                   *)
(***************************************************************************)
\* C21: from the construction of the manager with a communicator until its
\* destruction, the registry holds exactly as many nodes as the messenger
\* reports, node i has index i and communicator index i, this node is the
\* entry at the messenger's node index and the master node the entry at the
\* messenger's master index; no operation in between changes any of them.
C21_RegistryFixed ==
    (cfg.comm # "disabled" /\ singleton.exists) =>
        /\ DOMAIN singleton.nodes = 1..cfg.size
        /\ \A i \in 1..cfg.size :
              singleton.nodes[i] = [index |-> i - 1, commIndex |-> i - 1]
        /\ singleton.thisNode = cfg.index
        /\ singleton.masterNode = cfg.master

\* C21 witness: a slave of a two-node cluster whose master is not node 0,
\* after shutdownPhase1() and before the manager is destroyed
C21_Witness ==
    /\ cfg.comm = "mpi" /\ cfg.size = 2
    /\ cfg.index = 0 /\ cfg.master = 1
    /\ cmPhase = 3
    /\ singleton.exists
    /\ singleton.thisNode = 0 /\ singleton.masterNode = 1

(***************************************************************************)
(* Claims about ClusterDataLinkStep::start and linkRegion (SpecLink)       *)
(***************************************************************************)
\* the one data link start() hands to the execution step
StartDataLink ==
    [location |-> IF lkRead \/ lkWrite THEN lkSource ELSE -1,
     read |-> lkRead, write |-> lkWrite]

\* C28: start() adds exactly one data link to its successor, the execution
\* step, and releases its successors exactly once, in the critical section
\* of the step lock that no linkRegion() call shares; a linkRegion() call
\* decides to destroy the step, and the step is destroyed, only after the
\* successors were released.
C28_StartReleasesUnderLock ==
    /\ [](/\ released <= 1
          /\ Len(dataLinks) = released
          /\ (lkPc[0] \in {"post", "done"}) = (released = 1)
          /\ released = 1 => dataLinks[1] = StartDataLink
          /\ destroyed > 0 => released = 1
          /\ \A t \in LinkThreads : lkDelete[t] => released = 1)
    /\ [][released' # released =>
            /\ lockHolder = {0}
            /\ lockHolder' = {}
            /\ released' = released + 1
            /\ dataLinks' = Append(dataLinks, StartDataLink)]_vars

\* C28 witness: a linkRegion() call that ran after start() had released the
\* successors found every byte linked
C28_Witness ==
    /\ released = 1
    /\ lkPc[0] = "done"
    /\ \E t \in LinkThreads : lkDelete[t] /\ lkPc[t] = "done"
    /\ Len(dataLinks) = 1

\* the location index linkRegion has to send for a location
SentIndex(loc) ==
    CASE loc = "null" -> -1
      [] loc = "host" -> ThisNodeIndex
      [] loc = "directory" -> DirectoryIndex
      [] loc = "cluster" -> RemoteNodeIndex

\* C29: every linkRegion() call appends exactly one satisfiability record,
\* keyed by the task's remote node, and nothing else changes the map; the
\* record carries -1 for an absent location, which comes with write and
\* without read satisfiability only, the current node's index for a location
\* that is neither the directory's nor a cluster memory node, and the
\* location's own index otherwise.
C29_LinkRegionRecord ==
    /\ [](\A i \in DOMAIN satMap :
            /\ satMap[i].node = RemoteNodeIndex
            /\ satMap[i].locationIndex = -1 => (satMap[i].write /\ ~satMap[i].read))
    /\ [][/\ satMap' # satMap =>
                \E t \in LinkThreads :
                    /\ lkPc[t] = "cs" /\ lkPc'[t] = "post"
                    /\ satMap' = Append(satMap,
                          [node |-> RemoteNodeIndex,
                           locationIndex |-> SentIndex(lkArgs[t].loc),
                           read |-> lkArgs[t].read, write |-> lkArgs[t].write])
          /\ \A t \in LinkThreads :
                (lkPc[t] = "cs" /\ lkPc'[t] = "post") =>
                    Len(satMap') = Len(satMap) + 1]_vars

\* C29 witness: three calls: write satisfiability without a location, read
\* satisfiability located in host memory, read satisfiability located at the
\* directory
C29_Witness ==
    /\ Len(satMap) = 3
    /\ \E i \in DOMAIN satMap : satMap[i].locationIndex = -1
    /\ \E i \in DOMAIN satMap : satMap[i].locationIndex = ThisNodeIndex
    /\ \E i \in DOMAIN satMap : satMap[i].locationIndex = DirectoryIndex
    /\ \E t \in LinkThreads : lkArgs[t].loc = "host"

\* C27: a set_early_release call changes the release discipline of the
\* calling task only: no_wait clears its delayed release, wait sets it,
\* autowait sets the delayed release of non-local accesses and leaves the
\* delayed release of all accesses as it was; whatever a call does not set it
\* leaves alone, and no other task and no configuration value changes.
C27_OnlyCallingTask ==
    [][\E t \in ReleaseTasks, mode \in ReleaseModes :
          /\ lastRelease' = [lastRelease EXCEPT ![t] = mode]
          /\ disableAutowait' = disableAutowait
          /\ \A u \in ReleaseTasks \ {t} : taskFlags'[u] = taskFlags[u]
          /\ mode = "nanos6_no_wait" =>
                /\ ~taskFlags'[t].delayedRelease
                /\ taskFlags'[t].delayedNonLocalRelease
                       = taskFlags[t].delayedNonLocalRelease
          /\ mode = "nanos6_wait" =>
                /\ taskFlags'[t].delayedRelease
                /\ taskFlags'[t].delayedNonLocalRelease
                       = taskFlags[t].delayedNonLocalRelease
          /\ mode = "nanos6_autowait" =>
                /\ taskFlags'[t].delayedNonLocalRelease
                /\ taskFlags'[t].delayedRelease = taskFlags[t].delayedRelease]_vars

\* C27 witness: one task has called autowait and then no_wait, another task
\* created with the wait clause has called nothing and still has its flags
C27_Witness ==
    \E t, u \in ReleaseTasks :
        /\ t # u
        /\ lastRelease[t] = "nanos6_no_wait"
        /\ taskFlags[t].delayedNonLocalRelease /\ ~taskFlags[t].delayedRelease
        /\ lastRelease[u] = "none"
        /\ taskFlags[u].delayedRelease /\ ~taskFlags[u].delayedNonLocalRelease

(***************************************************************************)
(* Claims about requiresDataFetch and the scan of the pending queue        *)
(***************************************************************************)
\* the pending transfers to this node that contain the region of step c
ContainingPending(c) ==
    { i \in DOMAIN pendingQueue :
        /\ pendingQueue[i].target = ThisNodeIndex
        /\ pendingQueue[i].region.s <= cpRegion[c].s
        /\ cpRegion[c].e <= pendingQueue[i].region.e }

\* a new network fetch has to be issued for step c
MustFetch(c) ==
    /\ cpNeeds[c]
    /\ ~\E e \in widCache :
            /\ e.wid = cpWid[c]
            /\ e.region.s <= cpRegion[c].s /\ cpRegion[c].e <= e.region.e
    /\ ContainingPending(c) = {}

\* C30: requiresDataFetch returns true exactly when the step needs a
\* transfer, its write ID is not local by now and no pending transfer to this
\* node contains its region; a call returning true destroys nothing,
\* releases nothing and updates no location; a call returning false
\* releases the successors at once, or leaves that to the completion of the
\* pending transfer it matched, and the successors of a step are never
\* released twice.
C30_ReturnsTrueIffFetchNeeded ==
    /\ [](\A c \in CopySteps :
            /\ cpReleased[c] <= 1
            /\ cpPc[c] \in {"needFetch", "piggy"} =>
                  (cpReleased[c] = 0 /\ cpDestroyed[c] = 0 /\ cpLocUpdated[c] = 0))
    /\ [][\A c \in CopySteps :
            /\ (cpPc[c] = "created" /\ cpPc'[c] # "created") =>
                  /\ (cpPc'[c] = "needFetch") = MustFetch(c)
                  /\ cpPc'[c] = "needFetch" =>
                        /\ cpReleased' = cpReleased
                        /\ cpDestroyed' = cpDestroyed
                        /\ cpLocUpdated' = cpLocUpdated
                        /\ pendingQueue' = pendingQueue
                  /\ cpPc'[c] # "needFetch" =>
                        \/ /\ cpPc'[c] = "done"
                           /\ cpReleased'[c] = 1
                           /\ pendingQueue' = pendingQueue
                        \/ /\ cpPc'[c] = "piggy"
                           /\ cpReleased'[c] = 0
                           /\ Cardinality(CallbacksOf(c)') = 1
            /\ (cpPc[c] = "piggy" /\ cpPc'[c] # "piggy") =>
                  /\ cpPc'[c] = "done"
                  /\ cpReleased'[c] = 1
                  /\ Len(pendingQueue') = Len(pendingQueue) - 1
                  /\ CallbacksOf(c)' = {}]_vars

\* C30 witness: one call returned true and its step fetched, the call of the
\* other step returned false on finding that fetch pending; both steps are
\* done, each with its successors released once
C30_Witness ==
    \E a, b \in CopySteps :
        /\ a # b
        /\ cpPc[a] = "done" /\ Issued(a)
        /\ cpPc[b] = "done" /\ cpSawPending[b] /\ ~Issued(b)
        /\ cpReleased[a] = 1 /\ cpReleased[b] = 1

\* C25: the scan of the pending queue stops at the first pending transfer
\* its predicate accepts: a requiresDataFetch call that gets as far as the
\* scan adds one completion callback to the first pending transfer, in queue
\* order, that goes to this node and contains the step's region, and to no
\* other; it adds none when there is no such transfer.
C25_FirstMatchOnly ==
    [][\A c \in CopySteps :
          (cpPc[c] = "created" /\ cpPc'[c] \in {"piggy", "needFetch"}) =>
              LET matches == ContainingPending(c) IN
              /\ (matches = {}) = (cpPc'[c] = "needFetch")
              /\ matches = {} => pendingQueue' = pendingQueue
              /\ matches # {} =>
                    LET first == CHOOSE i \in matches : \A j \in matches : i <= j
                    IN  /\ Len(pendingQueue') = Len(pendingQueue)
                        /\ \A i \in DOMAIN pendingQueue :
                              pendingQueue'[i] =
                                  IF i = first
                                  THEN [pendingQueue[i] EXCEPT
                                            !.callbacks = Append(@, c)]
                                  ELSE pendingQueue[i]]_vars

\* C25 witness: two pending transfers to this node contain the step's region
\* and the step's callback is on the first of the two only
C25_Witness ==
    \E c \in CopySteps :
        /\ cpPc[c] = "piggy"
        /\ Cardinality(ContainingPending(c)) = 2
        /\ \E i \in ContainingPending(c) :
              /\ pendingQueue[i].callbacks = << c >>
              /\ \A j \in (DOMAIN pendingQueue) \ {i} :
                    /\ pendingQueue[j].callbacks = << >>
                    /\ j \in ContainingPending(c) => i < j

(***************************************************************************)
(* Claims about the bootstrap wrapper (checked under SpecBootFair)         *)
(***************************************************************************)
\* the calls of a complete run of the wrapper, in order
BootOrder ==
    << "nanos_preinit", "nanos_spawn_function", "nanos_init", "nanos_shutdown" >>

\* the wrapper has called nanos_shutdown
ShutdownCalled == \E i \in DOMAIN bootCalls : bootCalls[i] = "nanos_shutdown"

\* C22: the wrapper calls nanos_preinit, nanos_spawn_function, nanos_init
\* and nanos_shutdown in this order; it leaves its wait, and calls
\* nanos_shutdown, only after the completion callback of the main task has
\* set the flag and left the mutex; once the callback has fired, whether
\* before the wrapper waits or while it waits, the wrapper eventually calls
\* nanos_shutdown and returns what the wrapped main returned.
C22_BootstrapOrder ==
    /\ [](/\ Len(bootCalls) <= Len(BootOrder)
          /\ \A i \in DOMAIN bootCalls : bootCalls[i] = BootOrder[i]
          /\ bootPc \in {"unlock", "shutdown", "return", "returned"} => signaled = 1
          /\ ShutdownCalled => taskPc = "finished"
          /\ bootPc = "returned" => (ShutdownCalled /\ bootResult = << wrappedRc >>))
    /\ (signaled = 1) ~> (bootPc = "returned")

\* C22 witness: the wrapper has returned after one wait that the signal of
\* the callback ended
C22_Witness ==
    /\ bootPc = "returned"
    /\ waits = 1 /\ spurious = 0
    /\ bootCalls = BootOrder
    /\ wrappedRc = 1 /\ bootResult = << 1 >>

(***************************************************************************)
(* Claims about the CPUManager (checked under SpecCPU)                     *)
(***************************************************************************)
\* the compute places whose system id is in the affinity mask
Admitted == { i \in DOMAIN hwCPUs : hwCPUs[i].systemCPUId \in processCPUMask }

\* how many admitted compute places come before place i in the enumeration
Rank(i) == Cardinality({ j \in Admitted : j < i })

\* C23: after preinitialize() the admitted CPUs have the virtual ids
\* 0 .. _totalCPUs - 1 in enumeration order, each id once; _cpus[id] is the
\* CPU with that id; the id of a CPU is in the mask of its own NUMA node and
\* of no other; a CPU outside the affinity mask has the invalid id, is no
\* entry of _cpus and no NUMA mask has a bit for it; no CPU is marked idle.
C23_DenseVirtualIds ==
    cpuPc \in {"preinitialized", "initializing", "initialized"} =>
        /\ totalCPUs = Cardinality(Admitted)
        /\ \A i \in Admitted :
              /\ cpuIndex[i] = Rank(i)
              /\ cpuIndex[i] \in 0..(totalCPUs - 1)
              /\ cpusVec[cpuIndex[i]] = i
              /\ \A n \in NUMANodes :
                    (cpuIndex[i] \in NUMANodeMask[n]) = (n = hwCPUs[i].numaNodeId)
        /\ \A i, j \in Admitted : i # j => cpuIndex[i] # cpuIndex[j]
        /\ \A i \in (DOMAIN hwCPUs) \ Admitted :
              /\ cpuIndex[i] = InvalidCPUId
              /\ \A v \in DOMAIN cpusVec : cpusVec[v] # i
        /\ \A n \in NUMANodes : NUMANodeMask[n] \subseteq 0..(totalCPUs - 1)
        /\ \A v \in DOMAIN cpusVec : v >= totalCPUs => cpusVec[v] = NullCPU
        /\ idleCPUs = {}

\* C23 witness: three CPUs enumerated out of the order of their system ids,
\* the second one outside the affinity mask, the other two in different NUMA
\* nodes
C23_Witness ==
    /\ cpuPc = "preinitialized"
    /\ Len(hwCPUs) = 3
    /\ hwCPUs[1].systemCPUId > hwCPUs[3].systemCPUId
    /\ Admitted = {1, 3}
    /\ hwCPUs[1].numaNodeId # hwCPUs[3].numaNodeId
    /\ cpuIndex = << 0, InvalidCPUId, 1 >>
    /\ totalCPUs = 2

\* the compute places a worker thread was created for, one entry per thread
ThreadsOn(i) == { k \in DOMAIN workerThreads : workerThreads[k].cpu = i }

\* C24: initialize() creates one worker thread for every admitted CPU,
\* resumed on that CPU, and none for a CPU that is initialised already, so
\* that a second initialize() creates none;
\* _finishedCPUInitialization is true only when every admitted CPU has its
\* worker thread.
C24_OneWorkerPerCPU ==
    /\ \A k \in DOMAIN workerThreads :
          /\ workerThreads[k].cpu \in Admitted
          /\ workerThreads[k].resumedOn = workerThreads[k].cpu
    /\ \A i \in DOMAIN hwCPUs : Cardinality(ThreadsOn(i)) <= 1
    /\ \A i \in DOMAIN hwCPUs : cpuInitialized[i] = (ThreadsOn(i) # {})
    /\ cpuPc = "initializing" =>
          \A i \in Admitted :
              (cpuIndex[i] < virtualCPUId) => Cardinality(ThreadsOn(i)) = 1
    /\ finishedCPUInitialization =>
          /\ initializeCalls >= 1
          /\ \A i \in Admitted : Cardinality(ThreadsOn(i)) = 1
          /\ Len(workerThreads) = totalCPUs
    /\ cpuPc = "initialized" => finishedCPUInitialization

\* C24 witness: a second initialize() has returned; two CPUs are admitted
\* and there are two worker threads
C24_Witness ==
    /\ cpuPc = "initialized"
    /\ initializeCalls = 2
    /\ Cardinality(Admitted) = 2
    /\ Len(workerThreads) = 2
    /\ finishedCPUInitialization

(***************************************************************************)
(* Claims about the lock of the pending queue (checked under SpecScanLock) *)
(***************************************************************************)
\* the completion callbacks of step c that are still to run: those on
\* pending transfers and those the polling service has taken over
PendingCallbacks(c) ==
    Cardinality({ << i, j >> \in (DOMAIN scQueue) \X (1..Cardinality(CopySteps)) :
                    j \in DOMAIN scQueue[i].callbacks /\ scQueue[i].callbacks[j] = c })
        + Cardinality({ j \in DOMAIN svcRun : svcRun[j] = c })

\* C26: a thread that holds the lock of the pending queue for the scan of
\* requiresDataFetch never holds or waits for the registry lock, so it can
\* always go on and release the queue lock; the scan changes nothing of a
\* step but for one callback added to a pending transfer; the location
\* update, the release of the successors and the destruction of a step that
\* registered a callback happen once, in the polling service, after the
\* pending transfer has left the queue and the scan of the step has ended;
\* every thread that holds a lock can take a step or waits for a lock whose
\* holder can.
C26_ScanTakesNoRegistryLock ==
    /\ [](\A c \in CopySteps :
            /\ Worker(c) \in queueLock =>
                  /\ Worker(c) \notin registryLock
                  /\ ENABLED (ScanVisit(c) \/ ScanRelease(c))
            /\ scPc[c] \in {"created", "scan", "needFetch"} =>
                  /\ PendingCallbacks(c) = 0
                  /\ scLocUpdated[c] = 0 /\ scReleased[c] = 0 /\ scDestroyed[c] = 0
            /\ scPc[c] \in {"handled", "piggy"} =>
                  /\ PendingCallbacks(c) = 1
                  /\ scLocUpdated[c] = 0 /\ scReleased[c] = 0 /\ scDestroyed[c] = 0
            /\ scPc[c] = "done" =>
                  /\ PendingCallbacks(c) = 0
                  /\ scLocUpdated[c] = 1 /\ scReleased[c] = 1 /\ scDestroyed[c] = 1)
    /\ [](/\ OtherWorker \in registryLock => ENABLED RegistryRelease
          /\ (Service \in queueLock \/ Service \in registryLock) =>
                \/ ENABLED ServiceSteps
                \/ (OtherWorker \in registryLock /\ ENABLED RegistryRelease))
    /\ [][<< scLocUpdated, scReleased, scDestroyed >>'
                # << scLocUpdated, scReleased, scDestroyed >> =>
            /\ svcRun # << >>
            /\ Service \in registryLock
            /\ Worker(Head(svcRun)) \notin queueLock
            /\ scPc[Head(svcRun)] = "piggy"]_vars

\* C26 witness: the polling service runs the completion callback of one step
\* under the registry lock while the scan of the other step, which has just
\* registered its callback, holds the queue lock
C26_Witness ==
    \E c, d \in CopySteps :
        /\ c # d
        /\ registryLock = {Service}
        /\ svcRun # << >> /\ Head(svcRun) = c
        /\ queueLock = {Worker(d)}
        /\ scPc[d] = "handled"
        /\ scPc[c] = "piggy"


\* two regions that share at least one address
Overlaps(a, b) == a.s < b.e /\ b.s < a.e

\* C31: a copy step piggy-backs only on a pending transfer whose target is
\* this node and whose region fully contains the step's region: the callback
\* of a step is never on an outgoing transfer, even one that contains the
\* step's region, and never on a transfer that only partly overlaps it; a
\* step that finds nothing but such transfers pending has to fetch.
C31_OnlyIncomingContaining ==
    /\ \A i \in DOMAIN pendingQueue :
          \A k \in DOMAIN pendingQueue[i].callbacks :
              /\ pendingQueue[i].target = ThisNodeIndex
              /\ FullyContainedIn(cpRegion[pendingQueue[i].callbacks[k]],
                                  pendingQueue[i].region)
    /\ \A c \in CopySteps :
          cpPc[c] = "piggy" =>
              \E i \in DOMAIN pendingQueue :
                  /\ \E k \in DOMAIN pendingQueue[i].callbacks :
                        pendingQueue[i].callbacks[k] = c
                  /\ pendingQueue[i].target = ThisNodeIndex

\* C31 witness: the step scanned a queue holding an outgoing transfer that
\* contains its region and an incoming transfer that partly overlaps it, and
\* was told to fetch; neither transfer got a callback
C31_Witness ==
    \E c \in CopySteps :
        /\ cpPc[c] = "needFetch"
        /\ \E i, j \in DOMAIN pendingQueue :
              /\ pendingQueue[i].target = RemoteNodeIndex
              /\ FullyContainedIn(cpRegion[c], pendingQueue[i].region)
              /\ pendingQueue[j].target = ThisNodeIndex
              /\ Overlaps(cpRegion[c], pendingQueue[j].region)
              /\ ~FullyContainedIn(cpRegion[c], pendingQueue[j].region)
        /\ \A i \in DOMAIN pendingQueue : pendingQueue[i].callbacks = << >>


(***************************************************************************)
(* Claims about the services of the cluster manager (checked under SpecCM) *)
(***************************************************************************)
\* the number of calls of op in the log
CallCount(op) == Cardinality({ i \in DOMAIN cmLog : cmLog[i].op = op })

\* the two kinds of service and the kind cluster.services_in_task selects
ServiceKinds == {"ClusterServicesTask", "ClusterServicesPolling"}
ConfiguredKind ==
    IF cfg.inTask THEN "ClusterServicesTask" ELSE "ClusterServicesPolling"

\* C32: the service mode is fixed by cluster.services_in_task for the whole
\* run: the manager built on a messenger holds the configured mode and worker
\* count as long as it exists; postinitialize() starts only the configured
\* kind of service and that many workers; shutdownPhase1 waits for and shuts
\* down the kind that was started, stops as many workers as were started, and
\* every service started is shut down exactly once.
C32_ServiceModeFixed ==
    /\ (singleton.exists /\ singleton.msn) =>
          /\ singleton.taskInPoolins = cfg.inTask
          /\ singleton.numMessageHandlerWorkers = cfg.numWorkers
    /\ \A kind \in ServiceKinds :
          /\ CallCount(kind \o "::initialize") <= 1
          /\ kind # ConfiguredKind =>
                /\ CallCount(kind \o "::initialize") = 0
                /\ CallCount(kind \o "::waitUntilFinished") = 0
                /\ CallCount(kind \o "::shutdown") = 0
    /\ (cmPhase = 2 /\ InClusterMode) =>
          /\ activeTaskSvc = (IF cfg.inTask THEN 1 ELSE 0)
          /\ activePolling = (IF cfg.inTask THEN 0 ELSE 1)
          /\ workers = cfg.numWorkers
          /\ CallCount(ConfiguredKind \o "::initialize") = 1
          /\ CallCount(ConfiguredKind \o "::shutdown") = 0
    /\ cmPhase >= 3 =>
          /\ activeTaskSvc = 0 /\ activePolling = 0 /\ workers = 0
          /\ CallCount("initializeWorkers") = CallCount("shutdownWorkers")
          /\ \A kind \in ServiceKinds :
                /\ CallCount(kind \o "::waitUntilFinished")
                       = CallCount(kind \o "::initialize")
                /\ CallCount(kind \o "::shutdown")
                       = CallCount(kind \o "::initialize")

\* C32 witness: services run as internal tasks with message-handler
\* workers were started, waited for and shut down
C32_Witness ==
    /\ cmPhase >= 3
    /\ cfg.inTask /\ cfg.numWorkers > 0
    /\ CallCount("ClusterServicesTask::initialize") = 1
    /\ CallCount("ClusterServicesTask::waitUntilFinished") = 1
    /\ CallCount("ClusterServicesTask::shutdown") = 1
    /\ CallCount("shutdownWorkers") = 1
    /\ workers = 0


(***************************************************************************)
(* Claims about the completion paths of a copy step (SpecCopy)             *)
(***************************************************************************)
\* the pending transfers of the fragments of step c
OwnTransfers(c) == { i \in DOMAIN pendingQueue : pendingQueue[i].owner = c }

\* the three ways a step completes: at once in requiresDataFetch, in the
\* callback it added to a containing pending transfer, in its own completion
\* callback after its last fragment
OnImmediatePath(c) == cpPc[c] = "done" /\ ~Issued(c) /\ ~cpSawPending[c]
OnCoalescedPath(c) == cpPc[c] \in {"piggy", "done"} /\ ~Issued(c) /\ cpSawPending[c]
OnOwnFetchPath(c) == cpPc[c] \in {"needFetch", "fetching", "done"} /\ ~cpSawPending[c]
                        /\ (cpPc[c] = "needFetch" \/ Issued(c))

\* C33: every copy step is destroyed once and releases its successors once,
\* on one of three mutually exclusive paths: a step past requiresDataFetch is
\* on exactly one path; a step that is done was destroyed and released
\* exactly once; a step that is not done was not destroyed or released and
\* what completes it is still there: one callback on a pending transfer
\* (coalesced), or its own pending fragments, as many as remain to complete.
C33_OneCompletionPath ==
    \A c \in CopySteps :
        /\ cpDestroyed[c] <= 1 /\ cpReleased[c] <= 1
        /\ cpDestroyed[c] = cpReleased[c]
        /\ (cpDestroyed[c] = 1) = (cpPc[c] = "done")
        /\ cpPc[c] = "created" =>
              (~Issued(c) /\ CallbacksOf(c) = {} /\ OwnTransfers(c) = {})
        /\ cpPc[c] # "created" =>
              /\ Cardinality({ p \in {"immediate", "coalesced", "own"} :
                     \/ p = "immediate" /\ OnImmediatePath(c)
                     \/ p = "coalesced" /\ OnCoalescedPath(c)
                     \/ p = "own" /\ OnOwnFetchPath(c) }) = 1
              /\ Cardinality(CallbacksOf(c)) = (IF cpPc[c] = "piggy" THEN 1 ELSE 0)
              /\ Cardinality(OwnTransfers(c)) =
                     (IF cpPc[c] = "fetching" THEN cpFragsLeft[c] ELSE 0)
              /\ cpPc[c] = "fetching" => cpFragsLeft[c] >= 1

\* C33 witness: one step completed in its own callback after its last
\* fragment, the other in the callback it added to the first one's pending
\* transfer
C33_Witness ==
    \E a, b \in CopySteps :
        /\ a # b
        /\ cpPc[a] = "done" /\ OnOwnFetchPath(a) /\ cpDestroyed[a] = 1
        /\ cpPc[b] = "done" /\ OnCoalescedPath(b) /\ cpDestroyed[b] = 1

\* C33 second witness: a step completed at once in requiresDataFetch
C33_WitnessImmediate ==
    \E c \in CopySteps :
        cpPc[c] = "done" /\ OnImmediatePath(c) /\ cpDestroyed[c] = 1


(***************************************************************************)
(* Claims about the lifetime of the data-link step (SpecLink)              *)
(***************************************************************************)
\* C34: no operation touches a ClusterDataLinkStep after it has been
\* destroyed: once start() has deleted a step that was both read and write
\* satisfied, no later linkRegion() call, a duplicate satisfiability delivery
\* included, takes the lock of that step or reads or writes its members.
C34_NoUseAfterDestroy ==
    /\ ~useAfterFree
    /\ destroyed > 0 => \A t \in LinkThreads : lkPc[t] # "cs"


(***************************************************************************)
(* Claims about fetchVector taken call by call (SpecFetch)                 *)
(***************************************************************************)
\* step a was told to fetch and its transfers are not in the queue yet
InWindow(a) ==
    cpPc[a] \in {"needFetch", "inFetchVector"} /\ OwnTransfers(a) = {}

\* the region of step b lies inside one fragment of step a
InsideFragment(b, a) ==
    \E k \in DOMAIN Fragments(cpRegion[a], msgMaxSize) :
        FullyContainedIn(cpRegion[b], Fragments(cpRegion[a], msgMaxSize)[k])

\* step b runs requiresDataFetch in this step
Scans(b) == cpPc[b] = "created" /\ cpPc'[b] # "created"

\* whenever the DataFetch message of a step has been sent, every fragment of
\* the step that has not completed is a transfer in the pending queue
QueuedWhenSent ==
    \A c \in CopySteps :
        Issued(c) => Cardinality(OwnTransfers(c)) = cpFragsLeft[c]

\* C35 (as claimed): fetchVector queues the transfers of all fragments before
\* it sends the DataFetch message, and between a step's requiresDataFetch()
\* returning true and fetchVector queueing its transfers no other step for a
\* region inside one of its fragments scans the queue and is told to fetch.
C35_NoScanMissesTransfers ==
    /\ []QueuedWhenSent
    /\ [][\A a, b \in CopySteps :
            (a # b /\ InWindow(a) /\ InsideFragment(b, a) /\ Scans(b))
                => cpPc'[b] # "needFetch"]_vars

\* C35 (amended): fetchVector queues the transfers of all fragments before it
\* sends the DataFetch message, so a fragment whose message was sent is in
\* the queue until it completes; a step's transfers are not in the queue
\* between its requiresDataFetch() returning true and fetchVector queueing
\* them, and a step for a contained region that scans the queue in that
\* window and finds no other containing transfer is told to fetch as well,
\* adding no callback.
C35_QueuedBeforeSent ==
    /\ []QueuedWhenSent
    /\ [][\A a, b \in CopySteps :
            (a # b /\ InWindow(a) /\ InsideFragment(b, a) /\ Scans(b)
                 /\ ContainingPending(b) = {})
                => (cpPc'[b] = "needFetch" /\ pendingQueue' = pendingQueue)]_vars

\* C35 witness: step b scanned the queue while step a, whose one fragment
\* contains b's region, had been told to fetch and had nothing queued; both
\* were fetched, and a's message was sent with its transfer in the queue
C35_Witness ==
    \E a, b \in CopySteps :
        /\ a # b
        /\ InsideFragment(b, a)
        /\ ~cpSawPending[b]
        /\ Issued(a) /\ Issued(b)
        /\ OwnTransfers(a) # {} /\ OwnTransfers(b) # {}


(***************************************************************************)
(* Claims about the write ID of a coalesced fetch (SpecCopy)               *)
(***************************************************************************)
\* C36: a copy step that piggy-backs on a pending transfer marks its access
\* as located on this node only when the data that transfer delivers is the
\* version named by the step's own write ID: the completion callback of a
\* step, which updates the location of its access, is never on the pending
\* transfer of a step with a different write ID.
C36_PiggyBackSameWriteID ==
    \A i \in DOMAIN pendingQueue :
        \A k \in DOMAIN pendingQueue[i].callbacks :
            /\ pendingQueue[i].owner # 0
            /\ cpWid[pendingQueue[i].owner] = cpWid[pendingQueue[i].callbacks[k]]


\* C37: everything the cluster manager initialises is shut down in every
\* configuration: once shutdownPhase1 has returned, the remote-task and
\* offloaded-task info maps that a messenger-backed construction initialised
\* (whatever the cluster size the messenger reports) have been shut down, and
\* a messenger that exists has been shut down exactly once.
C37_AllInitialisedShutDown ==
    /\ CallCount("msn.shutdown") <= 1
    /\ cmPhase >= 3 =>
          /\ ~infoMaps
          /\ cfg.comm # "disabled" =>
                /\ CallCount("RemoteTasksInfoMap::shutdown") = 1
                /\ CallCount("OffloadedTasksInfoMap::shutdown") = 1
                /\ CallCount("msn.shutdown") = 1


(***************************************************************************)
(* Claims about the range of getScheduledNode (SpecSched)                  *)
(***************************************************************************)
\* C38: getScheduledNode returns nanos6_cluster_no_offload or a node index
\* in [0, clusterSize); for a task all of whose scores are zero, a task
\* without data accesses among them, it returns node 0 on whichever node the
\* call is made.
C38_ResultInRange ==
    schedResult.called =>
        /\ schedResult.node = NoOffload
              \/ schedResult.node \in 0..(ClusterSize - 1)
        /\ (schedResult.node = NoOffload) = ~schedResult.canBeOffloaded
        /\ schedTask = << >> => schedResult.node = 0
        /\ (/\ schedResult.canBeOffloaded
            /\ \A n \in 0..(ClusterSize - 1) : schedResult.bytes[n] = 0)
              => schedResult.node = 0

\* C38 witness: node 1 of a two-node cluster scheduled a task without data
\* accesses and got node 0
C38_Witness ==
    /\ schedResult.called
    /\ schedTask = << >>
    /\ ClusterSize = 2
    /\ singleton.thisNode = 1
    /\ schedResult.node = 0


(***************************************************************************)
(* Claims about the CPU lists of preinitialize (SpecCPU)                   *)
(***************************************************************************)
\* the CPUs a region list names, by system id
NamedBy(list) ==
    UNION { IF Len(list[k]) = 1 THEN {list[k][1]} ELSE list[k][1]..list[k][2] :
                k \in DOMAIN list }

\* the system ids of the CPUs whose bit is set in the mask of NUMA node n
CPUsOfNode(n) == { hwCPUs[cpusVec[v]].systemCPUId : v \in NUMANodeMask[n] }

\* C39: the CPU list of every NUMA node names every CPU whose bit is set in
\* the node's mask, a run of set bits that ends at the last virtual CPU
\* included, and no other CPU; it is the list the cpu_set_t overload gives
\* for the same set of CPUs.
C39_NodeListNamesMask ==
    cpuPc # "fresh" /\ cpuPc # "unused" =>
        \A n \in NUMANodes :
            /\ NamedBy(cpuLists.numa[n]) = CPUsOfNode(n)
            /\ cpuLists.numa[n] = MaskToRegionListOfSet(CPUsOfNode(n), MaxCPUs)


\* C40: the profiling signal handler never writes outside the current
\* per-thread sample buffer: every index of the buffer that a call writes (the
\* backtrace addresses, the end-of-backtrace mark and the end-of-buffer mark)
\* is smaller than the buffer size.
C40_WritesInsideBuffer ==
    \A i \in prWritten : i < profilingBufferSize

====
